---- MODULE Spec2Model ----
(***************************************************************************)
(* A model of the photondb core: the page frames and base/delta pages of   *)
(* the Bw-tree (engine/src/tree/archive/page.rs), the sorted-page codec     *)
(* (page/sorted_page.rs), the page-file builder, reader and file-info       *)
(* maintenance (page_store/page_file) and the latch-free write and read     *)
(* protocol of the tree on top of the page table.                           *)
(*                                                                         *)
(* The module holds four state machines over disjoint groups of variables: *)
(*   SpecBase   one logical leaf page of page.rs: a delta chain on a base, *)
(*              consolidation and split;                                   *)
(*   SpecCodec  a sorted page built from an entry list and read back;       *)
(*   SpecFile   page files written by the file builder, read by the page    *)
(*              reader, folded into the file-info map and recovered;        *)
(*   Spec       the concurrent tree: writers, readers and a structure       *)
(*              modification thread over a shared page table.               *)
(* Each specification leaves the variables of the other groups at their     *)
(* idle value.                                                             *)
(***************************************************************************)
EXTENDS Integers, Sequences, FiniteSets, TLC

\* ------------------------------------------------------------------------
\* State
\* ------------------------------------------------------------------------

\* SpecBase
VARIABLES
  bChain,   \* the frames of the page, head first, the base frame last
  bSplit,   \* the last split: the base it was applied to and its two halves
  bPrev,    \* the chain that the last consolidation replaced
  bLast     \* the operation that produced this state

bVars == <<bChain, bSplit, bPrev, bLast>>

\* SpecCodec
VARIABLES
  sEntries,  \* the entry list given to the builder
  sContent,  \* the content of the built page
  sBuilt,    \* whether the page has been built
  sRead      \* the last get: its index and what it returned

sVars == <<sEntries, sContent, sBuilt, sRead>>

\* SpecFile
VARIABLES
  fDisk,       \* the page files on disk, by file id
  fBuilder,    \* the file builder that is open, if any
  fPending,    \* the FileInfo that finish returned and that is not yet folded
  fVersion,    \* the file-info map in memory, by file id
  fWritten,    \* the bytes passed to add_page, by page address
  fRead,       \* the last read_exact_at: its address and what it returned
  fRecovered   \* what recovery_base_file_infos returned last

fVars == <<fDisk, fBuilder, fPending, fVersion, fWritten, fRead, fRecovered>>

\* Spec
VARIABLES
  tHeap,    \* the live page frames in memory, by address
  tTable,   \* the page table: the address of the head of each page id, or 0
  tLsn,     \* the LSN of the last write that a caller started
  tLog,     \* the writes by LSN: key, value and whether the call has returned
  tW,       \* the writer threads: the step, the write and the observed head
  tR,       \* the reader: the request, the chain it scanned and the result
  tSmo,     \* the thread that consolidates and splits
  tStats    \* the counters of the tree

tVars == <<tHeap, tTable, tLsn, tLog, tW, tR, tSmo, tStats>>

\* SpecEpoch
VARIABLES
  eEpoch,   \* the global reclamation epoch
  eSlot,    \* the page-table slot: the address of the head of the chain
  eFrames,  \* the frames by address: state, next frame, epoch list
  eG        \* the guards of the reader threads and the frame each one holds

eVars == <<eEpoch, eSlot, eFrames, eG>>

\* SpecFacade
VARIABLES
  xPending,  \* the facade call in flight and what the page store returned to it
  xLog       \* the facade calls that are over, with what the caller got

xVars == <<xPending, xLog>>

\* SpecPage
VARIABLES
  pKind,   \* the kind of the base page: "BaseData" or "BaseIndex"
  pPage,   \* the base page
  pDelta,  \* the delta index waiting to be applied to a base index
  pLast    \* the last split, retain or apply: its inputs and what it gave

pVars == <<pKind, pPage, pDelta, pLast>>

\* SpecQuery
VARIABLES
  qEntries,  \* the entries the page was built from
  qContent,  \* the content of the page
  qCall,     \* the last rank, seek or seek_back on the page and its result
  qIter,     \* the iterator over the page: its next position and its last entry
  qTrace     \* the last call on the iterator, what it returned and what is due

qVars == <<qEntries, qContent, qCall, qIter, qTrace>>

\* SpecDrop
VARIABLES
  dFrames,    \* the frames by address: their next and whether they are live
  dUnlinked,  \* the frames that unlink was called on, with the next it cleared
  dDrops      \* the drops so far: the frame, the frames before it, the releases

dVars == <<dFrames, dUnlinked, dDrops>>

vars == <<bVars, sVars, fVars, tVars, eVars, xVars, pVars, qVars, dVars>>

\* What the actions of one specification leave alone.
bOthers == <<sVars, fVars, tVars, eVars, xVars, pVars, qVars, dVars>>

sOthers == <<bVars, fVars, tVars, eVars, xVars, pVars, qVars, dVars>>

fOthers == <<bVars, sVars, tVars, eVars, xVars, pVars, qVars, dVars>>

tOthers == <<bVars, sVars, fVars, eVars, xVars, pVars, qVars, dVars>>

eOthers == <<bVars, sVars, fVars, tVars, xVars, pVars, qVars, dVars>>

xOthers == <<bVars, sVars, fVars, tVars, eVars, pVars, qVars, dVars>>

pOthers == <<bVars, sVars, fVars, tVars, eVars, xVars, qVars, dVars>>

qOthers == <<bVars, sVars, fVars, tVars, eVars, xVars, pVars, dVars>>

dOthers == <<bVars, sVars, fVars, tVars, eVars, xVars, pVars, qVars>>

\* ------------------------------------------------------------------------
\* Bounds of the model
\* ------------------------------------------------------------------------

\* Longest delta chain on the leaf of SpecBase (deltas, the base excluded).
MaxChain == 2

\* A page of SpecBase is split while its epoch is below MaxEpoch, and written
\* while the size field of its base is at most MaxSize.
MaxEpoch == 2

MaxSize == 4

\* ------------------------------------------------------------------------
\* Byte strings, options
\* ------------------------------------------------------------------------

\* Option<T>
Some(v) == [some |-> TRUE, val |-> v]

None == [some |-> FALSE, val |-> <<>>]

\* <[u8] as Ord>::lt : lexicographic order on byte strings.
RECURSIVE LexLess(_, _)
LexLess(a, b) ==
  IF a = <<>> THEN b # <<>>
  ELSE IF b = <<>> THEN FALSE
  ELSE IF Head(a) # Head(b) THEN Head(a) < Head(b)
  ELSE LexLess(Tail(a), Tail(b))

LexLeq(a, b) == a = b \/ LexLess(a, b)

\* The least byte string of a non-empty set.
MinKey(S) == CHOOSE k \in S : \A j \in S : LexLeq(k, j)

\* BTreeMap::keys(): the keys of a map in ascending order.
RECURSIVE SortedKeys(_)
SortedKeys(S) ==
  IF S = {} THEN <<>>
  ELSE LET m == MinKey(S) IN <<m>> \o SortedKeys(S \ {m})

\* The record keys and values of the page-level specifications.
PageKeys == {<<1>>, <<1, 2>>, <<2>>, <<2, 1>>}

PageValues == {<<7>>, <<8, 8>>}

\* ------------------------------------------------------------------------
\* engine/src/tree/archive/page.rs : PageHeader
\* ------------------------------------------------------------------------

\* PageHeader::new
PageHeader_new == [len |-> 1, next |-> 0, epoch |-> 0]

\* PageHeader::with_epoch
PageHeader_with_epoch(epoch) == [len |-> 1, next |-> 0, epoch |-> epoch]

\* A link that forgets the frame behind the new head.
PageHeader_with_next_dropped(header, addr) ==
  [len |-> header.len + 1, next |-> 0, epoch |-> header.epoch]

\* PageHeader::with_next : header is next.header(), addr is next.into_usize().
PageHeader_with_next(header, addr) ==
  [len |-> header.len + 1, next |-> addr, epoch |-> header.epoch]

\* A structure-modification link that keeps the epoch of the head below.
PageHeader_with_next_epoch_kept(header, addr) ==
  PageHeader_with_next(header, addr)

\* PageHeader::with_next_epoch
PageHeader_with_next_epoch(header, addr) ==
  [PageHeader_with_next(header, addr) EXCEPT !.epoch = @ + 1]

\* ------------------------------------------------------------------------
\* engine/src/tree/archive/page.rs : BaseData, DeltaData
\* ------------------------------------------------------------------------

\* The entries of a map, restricted to the keys of D.
Restrict(f, D) == [k \in D |-> f[k]]

\* BaseData::new
BaseData_new == [size |-> 0, lowest |-> <<>>, highest |-> <<>>,
                 records |-> [k \in {} |-> <<>>]]

\* BaseData::get
BaseData_get(self, key) ==
  IF key \in DOMAIN self.records THEN Some(self.records[key]) ELSE None

\* DeltaData::new
DeltaData_new == [records |-> [k \in {} |-> None]]

\* DeltaData::get : None when the delta has no record of the key, else
\* Some(value) where value is itself an option (None is a tombstone).
DeltaData_get(self, key) ==
  IF key \in DOMAIN self.records
  THEN [found |-> TRUE, value |-> self.records[key]]
  ELSE [found |-> FALSE, value |-> None]

\* DeltaData::add
DeltaData_add(self, key, value) ==
  [records |-> [k \in DOMAIN self.records \cup {key} |->
                  IF k = key THEN value ELSE self.records[k]]]

\* A merge in which the records of the older delta overwrite the newer ones.
DeltaData_merge_overwrite(self, other) ==
  [records |-> [k \in DOMAIN self.records \cup DOMAIN other.records |->
                  IF k \in DOMAIN other.records THEN other.records[k]
                  ELSE self.records[k]]]

\* DeltaData::merge : entry(key).or_insert(value) keeps what self already has.
DeltaData_merge(self, other) ==
  [records |-> [k \in DOMAIN self.records \cup DOMAIN other.records |->
                  IF k \in DOMAIN self.records THEN self.records[k]
                  ELSE other.records[k]]]

\* One iteration of the loop of BaseData::apply.
BaseData_apply_one(self, key, value) ==
  IF value.some
  THEN LET added == self.size + Len(key) + Len(value.val)
       IN [self EXCEPT
             !.size = IF key \in DOMAIN self.records
                      THEN added - Len(self.records[key]) ELSE added,
             !.records = [k \in DOMAIN self.records \cup {key} |->
                            IF k = key THEN value.val ELSE self.records[k]]]
  ELSE IF key \in DOMAIN self.records
       THEN [self EXCEPT
               !.size = self.size - (Len(key) + Len(self.records[key])),
               !.records = Restrict(self.records, DOMAIN self.records \ {key})]
       ELSE self

RECURSIVE BaseData_apply_keys(_, _, _)
BaseData_apply_keys(self, delta, keys) ==
  IF keys = <<>> THEN self
  ELSE BaseData_apply_keys(
         BaseData_apply_one(self, Head(keys), delta.records[Head(keys)]),
         delta, Tail(keys))

\* BaseData::apply
BaseData_apply(self, delta) ==
  BaseData_apply_keys(self, delta, SortedKeys(DOMAIN delta.records))

\* The sum of key and value lengths over the records of the keys D.
RECURSIVE RecordsSize(_, _)
RecordsSize(records, D) ==
  IF D = {} THEN 0
  ELSE LET k == CHOOSE k \in D : TRUE
       IN Len(k) + Len(records[k]) + RecordsSize(records, D \ {k})

\* A split that cuts one position too late: the middle record is in no half.
BaseData_split_skips_middle(self) ==
  LET keys == SortedKeys(DOMAIN self.records)
      nth == (Len(keys) + 1) \div 2
  IN IF nth < Len(keys)
     THEN LET rkeys == {keys[i] : i \in (nth + 2)..Len(keys)}
          IN Some([size |-> RecordsSize(self.records, rkeys),
                   lowest |-> keys[nth + 1],
                   highest |-> self.highest,
                   records |-> Restrict(self.records, rkeys)])
     ELSE None

\* BaseData::split : keys().nth(nth) is the key at 0-based position nth, and
\* skip(nth) starts at that key.
BaseData_split(self) ==
  LET keys == SortedKeys(DOMAIN self.records)
      nth == (Len(keys) + 1) \div 2
  IN IF nth < Len(keys)
     THEN LET rkeys == {keys[i] : i \in (nth + 1)..Len(keys)}
          IN Some([size |-> RecordsSize(self.records, rkeys),
                   lowest |-> keys[nth + 1],
                   highest |-> self.highest,
                   records |-> Restrict(self.records, rkeys)])
     ELSE None

\* The predicate of BaseData::retain and of the covering tests:
\* lowest <= k and (k < highest or highest is empty).
InRange(k, lowest, highest) ==
  LexLeq(lowest, k) /\ (LexLess(k, highest) \/ highest = <<>>)

\* A retain that takes an empty highest for the least key.
BaseData_retain_bounded(self, lowest, highest) ==
  LET kept == {k \in DOMAIN self.records : LexLeq(lowest, k) /\ LexLess(k, highest)}
  IN [size |-> RecordsSize(self.records, kept),
      lowest |-> lowest,
      highest |-> highest,
      records |-> Restrict(self.records, kept)]

\* BaseData::retain
BaseData_retain(self, lowest, highest) ==
  LET kept == {k \in DOMAIN self.records : InRange(k, lowest, highest)}
  IN [size |-> RecordsSize(self.records, kept),
      lowest |-> lowest,
      highest |-> highest,
      records |-> Restrict(self.records, kept)]

\* A cover test that leaves the middle key itself to the left page.
SplitNode_covers_above_middle(self, key) ==
  IF LexLess(self.middle, key) /\ (LexLess(key, self.highest) \/ self.highest = <<>>)
  THEN Some(self.right_page)
  ELSE None

\* engine/src/tree/archive/page.rs : SplitNode::covers
SplitNode_covers(self, key) ==
  IF LexLeq(self.middle, key) /\ (LexLess(key, self.highest) \/ self.highest = <<>>)
  THEN Some(self.right_page)
  ELSE None

\* PageHandle { id, epoch }
PageHandle(id, epoch) == [id |-> id, epoch |-> epoch]

\* ------------------------------------------------------------------------
\* SpecBase : one logical leaf page, its delta chain, consolidation, split
\* ------------------------------------------------------------------------

\* A frame: Page { header, content } at an address.
Frame(addr, header, kind, data) ==
  [addr |-> addr, header |-> header, kind |-> kind, data |-> data]

\* The base page at the end of a chain.
ChainBase(chain) == chain[Len(chain)].data

\* An address that no frame of the chain has (0 is the null pointer).
FreshAddr(chain) ==
  CHOOSE a \in 1..(Len(chain) + 1) : \A i \in 1..Len(chain) : chain[i].addr # a

\* Page::link : the new frame takes its header from the head it is put on.
Page_link(chain, kind, data) ==
  <<Frame(FreshAddr(chain),
          PageHeader_with_next(chain[1].header, chain[1].addr), kind, data)>>
  \o chain

\* The link of a structure modification: with_next_epoch.
Page_link_new_epoch(chain, kind, data) ==
  <<Frame(FreshAddr(chain),
          PageHeader_with_next_epoch(chain[1].header, chain[1].addr), kind, data)>>
  \o chain

\* The lookup of a key in a leaf chain, head to base: the first delta that
\* has a record of the key decides (a tombstone gives None), then the base.
RECURSIVE ChainLookup(_, _)
ChainLookup(chain, key) ==
  LET page == Head(chain)
  IN IF page.kind = "BaseData" THEN BaseData_get(page.data, key)
     ELSE IF page.kind = "DeltaData" /\ DeltaData_get(page.data, key).found
     THEN DeltaData_get(page.data, key).value
     ELSE ChainLookup(Tail(chain), key)

\* The deltas of a chain merged head first into one delta.
RECURSIVE MergeDeltas(_, _)
MergeDeltas(acc, chain) ==
  IF chain = <<>> THEN acc
  ELSE IF Head(chain).kind = "DeltaData"
  THEN MergeDeltas(DeltaData_merge(acc, Head(chain).data), Tail(chain))
  ELSE MergeDeltas(acc, Tail(chain))

\* The split nodes of a chain, head first.
SplitNodes(chain) ==
  SelectSeq(chain, LAMBDA page : page.kind = "SplitData")

\* Consolidation of a leaf chain: the merged deltas are applied to a copy of
\* the base, a split node trims the copy to its left half, and the result is a
\* base frame of its own with the epoch of the replaced head.
ConsolidateChain(chain) ==
  LET applied == BaseData_apply(ChainBase(chain), MergeDeltas(DeltaData_new, chain))
      nodes == SplitNodes(chain)
      base == IF nodes = <<>> THEN applied
              ELSE BaseData_retain(applied, nodes[1].data.lowest, nodes[1].data.middle)
  IN <<Frame(FreshAddr(chain), PageHeader_with_epoch(chain[1].header.epoch),
             "BaseData", base)>>

NoSplit == [done |-> FALSE, orig |-> BaseData_new, left |-> BaseData_new,
            right |-> BaseData_new]

bInit ==
  /\ bChain = <<Frame(1, PageHeader_new, "BaseData", BaseData_new)>>
  /\ bSplit = NoSplit
  /\ bPrev = <<>>
  /\ bLast = "new"

\* The keys that a write may be routed to this page with: those of its range
\* that no split node of the chain hands over to the right sibling.
Routed(chain, key) ==
  /\ InRange(key, ChainBase(chain).lowest, ChainBase(chain).highest)
  /\ \A i \in 1..Len(chain) :
       chain[i].kind = "SplitData" => ~SplitNode_covers(chain[i].data, key).some

\* A put (value Some(v)) or delete (value None) of one key: a delta with the
\* one record is linked on the head.
BWrite(key, value) ==
  /\ Len(bChain) <= MaxChain
  /\ ChainBase(bChain).size <= MaxSize
  /\ Routed(bChain, key)
  /\ bChain' = Page_link(bChain, "DeltaData", DeltaData_add(DeltaData_new, key, value))
  /\ bSplit' = NoSplit
  /\ bPrev' = <<>>
  /\ bLast' = "write"
  /\ UNCHANGED bOthers

\* Consolidation replaces the chain by one base frame.
BConsolidate ==
  /\ Len(bChain) > 1
  /\ bChain' = ConsolidateChain(bChain)
  /\ bPrev' = bChain
  /\ bSplit' = NoSplit
  /\ bLast' = "consolidate"
  /\ UNCHANGED bOthers

\* A split of the base: the right half becomes a page of its own and a split
\* node is linked on the original page with a new epoch.
BSplit ==
  /\ Len(bChain) = 1
  /\ bChain[1].header.epoch < MaxEpoch
  /\ BaseData_split(ChainBase(bChain)).some
  /\ LET base == ChainBase(bChain)
         right == BaseData_split(base).val
     IN /\ bChain' = Page_link_new_epoch(bChain, "SplitData",
                       [lowest |-> base.lowest, middle |-> right.lowest,
                        highest |-> base.highest, right_page |-> PageHandle(2, 0)])
        /\ bSplit' = [done |-> TRUE, orig |-> base,
                      left |-> BaseData_retain(base, base.lowest, right.lowest),
                      right |-> right]
  /\ bPrev' = <<>>
  /\ bLast' = "split"
  /\ UNCHANGED bOthers

\* The operations go on at the right sibling that the last split made.
BFollowRight ==
  /\ bSplit.done
  /\ bChain' = <<Frame(1, PageHeader_new, "BaseData", bSplit.right)>>
  /\ bSplit' = NoSplit
  /\ bPrev' = <<>>
  /\ bLast' = "right"
  /\ UNCHANGED bOthers

bNext ==
  \/ \E key \in PageKeys, value \in {Some(v) : v \in PageValues} \cup {None} :
       BWrite(key, value)
  \/ BConsolidate
  \/ BSplit
  \/ BFollowRight

\* ------------------------------------------------------------------------
\* Properties of SpecBase
\* ------------------------------------------------------------------------

\* Keys that the range tests are probed with: the record keys and keys
\* between and beyond them.
ProbeKeys == PageKeys \cup {<<>>, <<1, 1>>, <<1, 3>>, <<2, 2>>, <<3>>}

\* C5: a split preserves content. When split() of a base b gives a right page
\* r, the records that retain(b.lowest, r.lowest) keeps and the records of r
\* are disjoint, together they are the records of b with the same values, and
\* the ranges [b.lowest, r.lowest) and [r.lowest, b.highest) partition the
\* range of b.
C5_SplitPreservesContent ==
  bSplit.done =>
    LET b == bSplit.orig
        l == bSplit.left
        r == bSplit.right
    IN /\ DOMAIN l.records \cup DOMAIN r.records = DOMAIN b.records
       /\ DOMAIN l.records \cap DOMAIN r.records = {}
       /\ \A k \in DOMAIN l.records : l.records[k] = b.records[k]
       /\ \A k \in DOMAIN r.records : r.records[k] = b.records[k]
       /\ l.lowest = b.lowest /\ l.highest = r.lowest /\ r.highest = b.highest
       /\ \A k \in ProbeKeys :
            /\ InRange(k, b.lowest, b.highest) <=>
                 (InRange(k, l.lowest, l.highest) \/ InRange(k, r.lowest, r.highest))
            /\ ~(InRange(k, l.lowest, l.highest) /\ InRange(k, r.lowest, r.highest))

\* A split of a page that is bounded on both sides and holds two records.
C5_Witness ==
  /\ bSplit.done
  /\ bSplit.orig.lowest # <<>>
  /\ bSplit.orig.highest # <<>>
  /\ DOMAIN bSplit.left.records # {}
  /\ DOMAIN bSplit.right.records # {}

\* C7: consolidation preserves the effective contents of a leaf. The page
\* that replaces the chain is a single base frame with chain length 1 and the
\* epoch of the replaced head, and for every key that the chain does not hand
\* over to a right sibling its get(k) is the result of looking k up in the
\* replaced chain head to base.
C7_ConsolidationPreservesContent ==
  bLast = "consolidate" =>
    /\ Len(bChain) = 1
    /\ bChain[1].kind = "BaseData"
    /\ bChain[1].header.len = 1
    /\ bChain[1].header.next = 0
    /\ bChain[1].header.epoch = bPrev[1].header.epoch
    /\ \A k \in PageKeys :
         (\A i \in 1..Len(bPrev) :
            bPrev[i].kind = "SplitData" => ~SplitNode_covers(bPrev[i].data, k).some)
         => BaseData_get(bChain[1].data, k) = ChainLookup(bPrev, k)

\* A consolidation of a chain whose head is a tombstone of a key that the
\* delta behind it puts and that the base holds.
C7_Witness ==
  /\ bLast = "consolidate"
  /\ Len(bPrev) = 3
  /\ bPrev[1].kind = "DeltaData"
  /\ bPrev[2].kind = "DeltaData"
  /\ \E k \in DOMAIN ChainBase(bPrev).records :
       /\ k \in DOMAIN bPrev[1].data.records
       /\ k \in DOMAIN bPrev[2].data.records
       /\ ~bPrev[1].data.records[k].some
       /\ bPrev[2].data.records[k].some
       /\ ~BaseData_get(bChain[1].data, k).some

\* The frame of a chain at an address.
FrameAt(chain, addr) ==
  chain[CHOOSE i \in 1..Len(chain) : chain[i].addr = addr]

\* The number of frames reached from addr through next, following at most
\* fuel pointers.
RECURSIVE ReachCount(_, _, _)
ReachCount(chain, addr, fuel) ==
  IF addr = 0 \/ fuel = 0 \/ ~(\E i \in 1..Len(chain) : chain[i].addr = addr)
  THEN 0
  ELSE 1 + ReachCount(chain, FrameAt(chain, addr).header.next, fuel - 1)

\* C16: chains built by link and link_with_new_epoch on a base header (len 1,
\* next null). The chain length of the head is the number of frames reached
\* from the head through next, the head included; a frame put on by link has
\* the epoch of the frame below it, a frame put on by link_with_new_epoch has
\* that epoch plus one; the epochs are non-decreasing from the base to the
\* head.
C16_ChainHeaders ==
  LET n == Len(bChain)
  IN /\ bChain[n].header.len = 1
     /\ bChain[n].header.next = 0
     /\ bChain[1].header.len = ReachCount(bChain, bChain[1].addr, n + 1)
     /\ bChain[1].header.len = n
     /\ \A i \in 1..(n - 1) :
          /\ bChain[i].header.next = bChain[i + 1].addr
          /\ bChain[i].header.len = bChain[i + 1].header.len + 1
          /\ bChain[i].kind = "DeltaData" =>
               bChain[i].header.epoch = bChain[i + 1].header.epoch
          /\ bChain[i].kind = "SplitData" =>
               bChain[i].header.epoch = bChain[i + 1].header.epoch + 1
          /\ bChain[i].header.epoch >= bChain[i + 1].header.epoch

\* A delta linked on a split node linked on a base that a consolidation made
\* with the epoch of an earlier split.
C16_Witness ==
  /\ Len(bChain) = 3
  /\ bChain[1].kind = "DeltaData"
  /\ bChain[2].kind = "SplitData"
  /\ bChain[3].header.epoch = 1
  /\ bChain[1].header.epoch = 2
  /\ bChain[1].header.len = 3

\* ------------------------------------------------------------------------
\* page/sorted_page.rs : the sorted-page codec
\* ------------------------------------------------------------------------

\* Most entries of a page of SpecCodec.
MaxEntries == 2

\* mem::size_of::<u32>() and mem::size_of::<u64>()
SizeOfU32 == 4

SizeOfU64 == 8

\* VALUE_KIND_PUT, VALUE_KIND_DELETE
VALUE_KIND_PUT == 0

VALUE_KIND_DELETE == 1

\* Encoder::put_u32, put_u64 : the little-endian bytes of a word. The lengths
\* and offsets of the model stay far below 2^32, the width of the cast.
RECURSIVE LeBytes(_, _)
LeBytes(x, n) == IF n = 0 THEN <<>> ELSE <<x % 256>> \o LeBytes(x \div 256, n - 1)

put_u32(x) == LeBytes(x, SizeOfU32)

put_u64(x) == LeBytes(x, SizeOfU64)

\* u32::from_le, Decoder::get_u32, get_u64 : the word of little-endian bytes.
RECURSIVE FromLe(_)
FromLe(bytes) == IF bytes = <<>> THEN 0 ELSE Head(bytes) + 256 * FromLe(Tail(bytes))

\* The bytes of buf from 0-based position from up to, not including, to.
Slice(buf, from, to) == SubSeq(buf, from + 1, to)

\* EncodeTo for &[u8]
Bytes_encode_size(self) == SizeOfU32 + Len(self)

Bytes_encode_to(self) == put_u32(Len(self)) \o self

\* EncodeTo for Key
Key_encode_size(self) == Bytes_encode_size(self.raw) + SizeOfU64

Key_encode_to(self) == Bytes_encode_to(self.raw) \o put_u64(self.lsn)

\* EncodeTo for Value
Value_encode_size(self) == 1 + (IF self.kind = "Put" THEN Len(self.bytes) ELSE 0)

Value_encode_to(self) ==
  IF self.kind = "Put" THEN <<VALUE_KIND_PUT>> \o self.bytes
  ELSE <<VALUE_KIND_DELETE>>

\* DecodeFrom for Key, on the bytes of one item: the key and the bytes left.
Key_decode_from(item) ==
  LET len == FromLe(Slice(item, 0, SizeOfU32))
      raw == Slice(item, SizeOfU32, SizeOfU32 + len)
      lsn == FromLe(Slice(item, SizeOfU32 + len, SizeOfU32 + len + SizeOfU64))
  IN [key |-> [raw |-> raw, lsn |-> lsn],
      rest |-> Slice(item, SizeOfU32 + len + SizeOfU64, Len(item))]

\* DecodeFrom for Value : a put takes every byte that remains in the item.
Value_decode_from(rest) ==
  IF Head(rest) = VALUE_KIND_PUT
  THEN [kind |-> "Put", bytes |-> Tail(rest)]
  ELSE [kind |-> "Delete", bytes |-> <<>>]

PutValue(bytes) == [kind |-> "Put", bytes |-> bytes]

DeleteValue == [kind |-> "Delete", bytes |-> <<>>]

\* SortedPageBuilder::with_iter : the page size and the number of items.
RECURSIVE EntriesSize(_)
EntriesSize(entries) ==
  IF entries = <<>> THEN 0
  ELSE Key_encode_size(Head(entries).key) + Value_encode_size(Head(entries).value)
       + EntriesSize(Tail(entries))

SortedPageBuilder_with_iter(entries) ==
  [size |-> EntriesSize(entries) + Len(entries) * SizeOfU32,
   num_items |-> Len(entries)]

\* An add that leaves the size of the offsets table out of the offset.
SortedPageBuf_add_payload_offset(buf, key, value) ==
  [buf EXCEPT
     !.offsets = @ \o put_u32(Len(buf.payload)),
     !.payload = @ \o Key_encode_to(key) \o Value_encode_to(value)]

\* SortedPageBuf::add : offsets.len() is the size of the offsets table and
\* payload.offset() the number of payload bytes written so far.
SortedPageBuf_add(buf, key, value) ==
  [buf EXCEPT
     !.offsets = @ \o put_u32(buf.offsets_size + Len(buf.payload)),
     !.payload = @ \o Key_encode_to(key) \o Value_encode_to(value)]

\* SortedPageBuf::new
SortedPageBuf_new(num_items) ==
  [offsets_size |-> num_items * SizeOfU32, offsets |-> <<>>, payload |-> <<>>]

RECURSIVE SortedPageBuf_add_all(_, _)
SortedPageBuf_add_all(buf, entries) ==
  IF entries = <<>> THEN buf
  ELSE SortedPageBuf_add_all(
         SortedPageBuf_add(buf, Head(entries).key, Head(entries).value),
         Tail(entries))

\* SortedPageBuilder::build : the content of the page, whose size is the one
\* with_iter computed (the page is allocated zeroed and then written).
SortedPageBuilder_build(entries) ==
  LET builder == SortedPageBuilder_with_iter(entries)
      buf == SortedPageBuf_add_all(SortedPageBuf_new(builder.num_items), entries)
      written == buf.offsets \o buf.payload
  IN [i \in 1..builder.size |-> IF i <= Len(written) THEN written[i] ELSE 0]

\* SortedPageRef::new : the offsets table of a page content.
SortedPageRef_new(content) ==
  LET size == IF content = <<>> THEN 0 ELSE FromLe(Slice(content, 0, SizeOfU32))
      num_offsets == size \div SizeOfU32
  IN [content |-> content,
      offsets |-> [i \in 1..num_offsets |->
                     FromLe(Slice(content, (i - 1) * SizeOfU32, i * SizeOfU32))]]

\* SortedPageRef::len
SortedPageRef_len(self) == Len(self.offsets)

\* SortedPageRef::item_offset (index is 0-based)
SortedPageRef_item_offset(self, index) ==
  IF index < Len(self.offsets) THEN Some(self.offsets[index + 1]) ELSE None

\* SortedPageRef::item
SortedPageRef_item(self, index) ==
  LET offset == SortedPageRef_item_offset(self, index)
      next == SortedPageRef_item_offset(self, index + 1)
      next_offset == IF next.some THEN next.val ELSE Len(self.content)
  IN IF offset.some THEN Some(Slice(self.content, offset.val, next_offset)) ELSE None

\* SortedPageRef::get
SortedPageRef_get(self, index) ==
  LET item == SortedPageRef_item(self, index)
  IN IF item.some
     THEN LET k == Key_decode_from(item.val)
          IN Some([key |-> k.key, value |-> Value_decode_from(k.rest)])
     ELSE None

\* ------------------------------------------------------------------------
\* SpecCodec : a page is built from a sorted entry list and read back
\* ------------------------------------------------------------------------

\* Key order: raw bytes ascending, then lsn descending.
KeyLess(a, b) == LexLess(a.raw, b.raw) \/ (a.raw = b.raw /\ a.lsn > b.lsn)

CodecKeys == {[raw |-> r, lsn |-> l] : r \in {<<1>>, <<1, 2>>, <<2>>}, l \in {1, 300}}

CodecValues == {PutValue(<<>>), PutValue(<<9>>), PutValue(<<0, 1>>), DeleteValue}

CodecEntries == {[key |-> k, value |-> v] : k \in CodecKeys, v \in CodecValues}

\* The entry lists of at most MaxEntries entries with strictly increasing keys.
RECURSIVE ListsOfLen(_)
ListsOfLen(n) ==
  IF n = 0 THEN {<<>>}
  ELSE {Append(l, e) : l \in ListsOfLen(n - 1), e \in CodecEntries}

SortedLists ==
  {l \in UNION {ListsOfLen(n) : n \in 0..MaxEntries} :
     \A i \in 1..(Len(l) - 1) : KeyLess(l[i].key, l[i + 1].key)}

NoRead == [done |-> FALSE, index |-> 0, result |-> None]

sInit ==
  /\ sEntries \in SortedLists
  /\ sContent = <<>>
  /\ sBuilt = FALSE
  /\ sRead = NoRead

\* SortedPageBuilder::with_iter(entries).build(page)
SBuild ==
  /\ ~sBuilt
  /\ sContent' = SortedPageBuilder_build(sEntries)
  /\ sBuilt' = TRUE
  /\ UNCHANGED <<sEntries, sRead>>
  /\ UNCHANGED sOthers

\* SortedPageRef::new(page).get(index)
SGet(index) ==
  /\ sBuilt
  /\ sRead' = [done |-> TRUE, index |-> index,
               result |-> SortedPageRef_get(SortedPageRef_new(sContent), index)]
  /\ UNCHANGED <<sEntries, sContent, sBuilt>>
  /\ UNCHANGED sOthers

sNext ==
  \/ SBuild
  \/ \E index \in 0..(MaxEntries + 1) : SGet(index)

\* ------------------------------------------------------------------------
\* Properties of SpecCodec
\* ------------------------------------------------------------------------

\* C8: the sorted-page codec round-trips. A page built from a sorted list of
\* N entries reads back with len() = N, get(i) = the i-th entry for i < N and
\* get(i) = None for i >= N; the first offset word is N * 4 and a page of no
\* entries has no content.
C8_CodecRoundTrip ==
  sBuilt =>
    LET page == SortedPageRef_new(sContent)
        N == Len(sEntries)
    IN /\ SortedPageRef_len(page) = N
       /\ \A i \in 0..(N - 1) : SortedPageRef_get(page, i) = Some(sEntries[i + 1])
       /\ \A i \in N..(N + 2) : SortedPageRef_get(page, i) = None
       /\ N > 0 => FromLe(Slice(sContent, 0, SizeOfU32)) = N * SizeOfU32
       /\ N = 0 => sContent = <<>>
       /\ sRead.done =>
            sRead.result = IF sRead.index < N THEN Some(sEntries[sRead.index + 1])
                           ELSE None

\* A page of two entries, a tombstone and a put at an lsn of two bytes, whose
\* second entry has been read back.
C8_Witness ==
  /\ sBuilt
  /\ Len(sEntries) = 2
  /\ sEntries[1].value.kind = "Delete"
  /\ sEntries[2].value.kind = "Put"
  /\ sEntries[2].key.lsn = 300
  /\ sRead.done
  /\ sRead.index = 1
  /\ sRead.result = Some(sEntries[2])

\* ------------------------------------------------------------------------
\* page_store/page_file : file builder, page reader, file-info maintenance
\* ------------------------------------------------------------------------

\* The logical block size of the device.
BlockSize == 4

\* Most page files, most pages over all files, most delete-page records over
\* all files.
MaxFiles == 2

MaxPages == 3

MaxDeletes == 2

\* A page address holds the file id above the index within the file; the
\* model shifts the file id by IndexSpace where the code shifts by 32 bits.
IndexSpace == 8

\* page_addr
page_addr(file_id, index) == file_id * IndexSpace + index

\* The file id of a page address: page_addr >> 32.
AddrFileId(addr) == addr \div IndexSpace

\* The lengths of the pages of the model: one block, half a block.
PageLens == {BlockSize, BlockSize \div 2}

\* The least multiple of the block size that is no less than n.
AlignUp(n) == ((n + BlockSize - 1) \div BlockSize) * BlockSize

\* The greatest multiple of the block size that is no more than n.
AlignDown(n) == (n \div BlockSize) * BlockSize

Zeros(n) == [i \in 1..n |-> 0]

\* FileBuilder::new
FileBuilder_new(file_id) ==
  [open |-> TRUE, file_id |-> file_id, offset |-> 0, pages |-> <<>>,
   delete_pages |-> <<>>, data |-> <<>>]

NoBuilder ==
  [open |-> FALSE, file_id |-> 0, offset |-> 0, pages |-> <<>>,
   delete_pages |-> <<>>, data |-> <<>>]

\* An add_page that counts every page as whole blocks.
FileBuilder_add_page_whole_blocks(self, page_id, addr, bytes) ==
  [self EXCEPT
     !.pages = Append(@, [page_id |-> page_id, addr |-> addr,
                          offset |-> self.offset, size |-> Len(bytes)]),
     !.data = @ \o bytes \o Zeros(AlignUp(Len(bytes)) - Len(bytes)),
     !.offset = @ + AlignUp(Len(bytes))]

\* FileBuilder::add_page : the payload goes behind the payloads before it.
FileBuilder_add_page(self, page_id, addr, bytes) ==
  [self EXCEPT
     !.pages = Append(@, [page_id |-> page_id, addr |-> addr,
                          offset |-> self.offset, size |-> Len(bytes)]),
     !.data = @ \o bytes,
     !.offset = @ + Len(bytes)]

\* FileBuilder::add_delete_pages
FileBuilder_add_delete_pages(self, addrs) ==
  [self EXCEPT !.delete_pages = @ \o addrs]

\* The page handles of a page table, by page address.
Handles(pages) ==
  [a \in {pages[i].addr : i \in 1..Len(pages)} |->
     LET i == CHOOSE i \in 1..Len(pages) : pages[i].addr = a
     IN [offset |-> pages[i].offset, size |-> pages[i].size]]

\* FileBuilder::finish, the file: the payloads padded to a whole block, the
\* page table, the delete-page list and the meta.
FileBuilder_finish_file(self) ==
  [bytes |-> self.data \o Zeros(AlignUp(self.offset) - self.offset),
   page_table |-> self.pages,
   delete_pages |-> self.delete_pages,
   meta |-> [file_id |-> self.file_id, total_page_size |-> self.offset,
             block_size |-> BlockSize]]

\* FileBuilder::finish, the FileInfo it returns.
FileBuilder_finish_info(self) ==
  [effective_size |-> self.offset,
   handles |-> Handles(self.pages),
   meta |-> [file_id |-> self.file_id, total_page_size |-> self.offset,
             block_size |-> BlockSize]]

\* FileInfo::get_page_handle
FileInfo_get_page_handle(info, addr) ==
  IF addr \in DOMAIN info.handles THEN Some(info.handles[addr]) ELSE None

\* FileMeta::get_page_handle, of the meta reader of a file on disk.
FileMeta_get_page_handle(file, addr) ==
  IF addr \in DOMAIN Handles(file.page_table)
  THEN Some(Handles(file.page_table)[addr]) ELSE None

\* The positional read of the device under direct I/O: offset and length are
\* whole blocks, or the read fails.
Device_read_at(bytes, offset, len) ==
  IF offset % BlockSize = 0 /\ len % BlockSize = 0 /\ offset + len <= Len(bytes)
  THEN Some(SubSeq(bytes, offset + 1, offset + len))
  ELSE None

\* A read that copies from the start of the window it read.
PageFileReader_read_exact_at_no_trim(bytes, len, offset) ==
  LET start == AlignDown(offset)
      window == Device_read_at(bytes, start, AlignUp(offset + len) - start)
  IN IF window.some THEN Some(SubSeq(window.val, 1, len)) ELSE None

\* PageFileReader::read_exact_at : a read of whole blocks goes to the device
\* as it is; otherwise the blocks that cover [offset, offset + len) are read
\* into a scratch buffer and the bytes asked for are copied out of it.
PageFileReader_read_exact_at(bytes, len, offset) ==
  IF offset % BlockSize = 0 /\ len % BlockSize = 0
  THEN Device_read_at(bytes, offset, len)
  ELSE LET start == AlignDown(offset)
           window == Device_read_at(bytes, start, AlignUp(offset + len) - start)
       IN IF window.some
          THEN Some(SubSeq(window.val, offset - start + 1, offset - start + len))
          ELSE None

\* A deactivate_page that drops the handle and keeps the effective size.
FileInfo_deactivate_page_keeps_size(info, addr) ==
  IF addr \in DOMAIN info.handles
  THEN [info EXCEPT
          !.handles = Restrict(info.handles, DOMAIN info.handles \ {addr})]
  ELSE info

\* FileInfo::deactivate_page : the handle leaves the live set and its size
\* leaves the effective size.
FileInfo_deactivate_page(info, addr) ==
  IF addr \in DOMAIN info.handles
  THEN [info EXCEPT
          !.effective_size = @ - info.handles[addr].size,
          !.handles = Restrict(info.handles, DOMAIN info.handles \ {addr})]
  ELSE info

\* The delete-page records applied to the files of the map they name.
RECURSIVE ApplyDeletePages(_, _)
ApplyDeletePages(files, delete_pages) ==
  IF delete_pages = <<>> THEN files
  ELSE LET addr == Head(delete_pages)
           id == AddrFileId(addr)
       IN ApplyDeletePages(
            IF id \in DOMAIN files
            THEN [files EXCEPT ![id] = FileInfo_deactivate_page(@, addr)]
            ELSE files,
            Tail(delete_pages))

\* FileInfoBuilder::add_file_info
FileInfoBuilder_add_file_info(files, new_file_info, delete_pages) ==
  LET id == new_file_info.meta.file_id
      added == [f \in DOMAIN files \cup {id} |->
                  IF f = id THEN new_file_info ELSE files[f]]
  IN ApplyDeletePages(added, delete_pages)

\* The FileInfo that recovery reads from one file: its meta and page table.
RecoverFileInfo(file) ==
  [effective_size |-> file.meta.total_page_size,
   handles |-> Handles(file.page_table),
   meta |-> file.meta]

\* A recovery that reads the files and replays no delete-page record.
RecoverFiles_no_replay(disk, ids, files) ==
  IF ids = {} THEN files
  ELSE [f \in ids |-> RecoverFileInfo(disk[f])]

\* The files ids read in ascending file-id order, each file's delete-page
\* records replayed on the map built so far.
RECURSIVE RecoverFiles(_, _, _)
RecoverFiles(disk, ids, files) ==
  IF ids = {} THEN files
  ELSE LET id == CHOOSE i \in ids : \A j \in ids : i <= j
       IN RecoverFiles(disk, ids \ {id},
            FileInfoBuilder_add_file_info(files, RecoverFileInfo(disk[id]),
                                          disk[id].delete_pages))

EmptyMap == [f \in {} |-> 0]

\* FileInfoBuilder::recovery_base_file_infos
FileInfoBuilder_recovery_base_file_infos(disk, known_files) ==
  RecoverFiles(disk, known_files, EmptyMap)

\* PageFiles::open_meta_reader : File::open(path).await.expect(..) panics when
\* the file is not there; otherwise the meta reader of the file is returned.
PageFiles_open_meta_reader(disk, file_id) ==
  IF file_id \in DOMAIN disk
  THEN [panic |-> FALSE, reader |-> Some(disk[file_id].meta)]
  ELSE [panic |-> TRUE, reader |-> None]

\* What the caller of recovery_base_file_infos(known_files) gets: the meta
\* reader of every known file is opened; a panic ends the recovery.
Recovery_outcome(disk, known_files) ==
  IF \E f \in known_files : PageFiles_open_meta_reader(disk, f).panic
  THEN [tag |-> "panic", files |-> EmptyMap]
  ELSE [tag |-> "Ok",
        files |-> FileInfoBuilder_recovery_base_file_infos(disk, known_files)]

\* ------------------------------------------------------------------------
\* SpecFile : page files are written, read, folded into the map, recovered
\* ------------------------------------------------------------------------

NoPending == [some |-> FALSE, info |-> EmptyMap, delete_pages |-> <<>>]

NoFileRead == [done |-> FALSE, addr |-> 0, via |-> "", result |-> None]

NoRecovery == [done |-> FALSE, known |-> {}, tag |-> "", files |-> EmptyMap]

fInit ==
  /\ fDisk = EmptyMap
  /\ fBuilder = NoBuilder
  /\ fPending = NoPending
  /\ fVersion = EmptyMap
  /\ fWritten = EmptyMap
  /\ fRead = NoFileRead
  /\ fRecovered = NoRecovery

\* The delete-page records of the files on disk and of the open builder.
RECURSIVE SumLens(_, _)
SumLens(f, D) ==
  IF D = {} THEN 0
  ELSE LET x == CHOOSE x \in D : TRUE IN Len(f[x]) + SumLens(f, D \ {x})

DeleteCount == SumLens([f \in DOMAIN fDisk |-> fDisk[f].delete_pages], DOMAIN fDisk)
               + Len(fBuilder.delete_pages)

\* PageFiles::new_file_builder : file ids go up from 1.
FNewBuilder ==
  /\ ~fBuilder.open
  /\ ~fPending.some
  /\ Cardinality(DOMAIN fDisk) < MaxFiles
  /\ fBuilder' = FileBuilder_new(Cardinality(DOMAIN fDisk) + 1)
  /\ fRead' = NoFileRead
  /\ fRecovered' = NoRecovery
  /\ UNCHANGED <<fDisk, fPending, fVersion, fWritten>>
  /\ UNCHANGED fOthers

\* FileBuilder::add_page(page_id, page_addr(file_id, index), bytes) : the page
\* is filled with its page id, which is also its index within the file.
FAddPage(len) ==
  /\ fBuilder.open
  /\ Cardinality(DOMAIN fWritten) < MaxPages
  /\ LET page_id == Cardinality(DOMAIN fWritten) + 1
         addr == page_addr(fBuilder.file_id, page_id)
         bytes == [i \in 1..len |-> page_id]
     IN /\ page_id < IndexSpace
        /\ fBuilder' = FileBuilder_add_page(fBuilder, page_id, addr, bytes)
        /\ fWritten' = [a \in DOMAIN fWritten \cup {addr} |->
                          IF a = addr THEN bytes ELSE fWritten[a]]
  /\ fRead' = NoFileRead
  /\ fRecovered' = NoRecovery
  /\ UNCHANGED <<fDisk, fPending, fVersion>>
  /\ UNCHANGED fOthers

\* FileBuilder::add_delete_pages(&[addr]) : the address is one of a page that
\* is live in the map and that the builder does not delete already.
FAddDeletePages(addr) ==
  /\ fBuilder.open
  /\ DeleteCount < MaxDeletes
  /\ AddrFileId(addr) \in DOMAIN fVersion
  /\ addr \in DOMAIN fVersion[AddrFileId(addr)].handles
  /\ \A i \in 1..Len(fBuilder.delete_pages) : fBuilder.delete_pages[i] # addr
  /\ fBuilder' = FileBuilder_add_delete_pages(fBuilder, <<addr>>)
  /\ fRead' = NoFileRead
  /\ fRecovered' = NoRecovery
  /\ UNCHANGED <<fDisk, fPending, fVersion, fWritten>>
  /\ UNCHANGED fOthers

\* FileBuilder::finish
FFinish ==
  /\ fBuilder.open
  /\ fDisk' = [f \in DOMAIN fDisk \cup {fBuilder.file_id} |->
                 IF f = fBuilder.file_id THEN FileBuilder_finish_file(fBuilder)
                 ELSE fDisk[f]]
  /\ fPending' = [some |-> TRUE, info |-> FileBuilder_finish_info(fBuilder),
                  delete_pages |-> fBuilder.delete_pages]
  /\ fBuilder' = NoBuilder
  /\ fRead' = NoFileRead
  /\ fRecovered' = NoRecovery
  /\ UNCHANGED <<fVersion, fWritten>>
  /\ UNCHANGED fOthers

\* FileInfoBuilder::add_file_info(&version, file_info, delete_pages)
FAddFileInfo ==
  /\ fPending.some
  /\ fVersion' = FileInfoBuilder_add_file_info(fVersion, fPending.info,
                                                fPending.delete_pages)
  /\ fPending' = NoPending
  /\ fRead' = NoFileRead
  /\ fRecovered' = NoRecovery
  /\ UNCHANGED <<fDisk, fBuilder, fWritten>>
  /\ UNCHANGED fOthers

\* The FileInfo of a file on disk: the one finish returned, until it is folded
\* into the map.
InfoOf(id) ==
  IF fPending.some /\ fPending.info.meta.file_id = id THEN fPending.info
  ELSE fVersion[id]

\* open_page_reader(file_id).read_exact_at(buf, offset) with the handle that
\* the FileInfo of the map (via = "info") or the file meta read back by the
\* meta reader (via = "meta") reports for addr.
FReadPage(addr, via) ==
  /\ AddrFileId(addr) \in DOMAIN fDisk
  /\ LET id == AddrFileId(addr)
         hd == IF via = "info" THEN FileInfo_get_page_handle(InfoOf(id), addr)
               ELSE FileMeta_get_page_handle(fDisk[id], addr)
     IN /\ hd.some
        /\ fRead' = [done |-> TRUE, addr |-> addr, via |-> via,
                     result |-> PageFileReader_read_exact_at(
                                  fDisk[id].bytes, hd.val.size, hd.val.offset)]
  /\ fRecovered' = NoRecovery
  /\ UNCHANGED <<fDisk, fBuilder, fPending, fVersion, fWritten>>
  /\ UNCHANGED fOthers

\* The file ids that a caller knows: those of the map, alone or with the id
\* of a file that was never written.
KnownFileSets ==
  {DOMAIN fVersion, DOMAIN fVersion \cup {Cardinality(DOMAIN fDisk) + 1}}

\* FileInfoBuilder::recovery_base_file_infos(known_files) : the files on disk
\* are read and none is written.
FRecover(known_files) ==
  /\ ~fBuilder.open
  /\ fVersion # EmptyMap
  /\ LET out == Recovery_outcome(fDisk, known_files)
     IN fRecovered' = [done |-> TRUE, known |-> known_files,
                       tag |-> out.tag, files |-> out.files]
  /\ fRead' = NoFileRead
  /\ UNCHANGED <<fDisk, fBuilder, fPending, fVersion, fWritten>>
  /\ UNCHANGED fOthers

fNext ==
  \/ FNewBuilder
  \/ \E len \in PageLens : FAddPage(len)
  \/ \E addr \in DOMAIN fWritten : FAddDeletePages(addr)
  \/ FFinish
  \/ FAddFileInfo
  \/ \E addr \in DOMAIN fWritten, via \in {"info", "meta"} : FReadPage(addr, via)
  \/ \E known_files \in KnownFileSets : FRecover(known_files)

\* ------------------------------------------------------------------------
\* Properties of SpecFile
\* ------------------------------------------------------------------------

\* C9: file builder / reader round trip. A read_exact_at at the offset and
\* size that the FileInfo or the file meta reports for a page address returns
\* exactly the bytes that were passed to add_page for that address, whatever
\* the alignment of the request.
C9_FileRoundTrip ==
  fRead.done => fRead.result = Some(fWritten[fRead.addr])

\* A page that starts and ends inside a block has been read back.
C9_Witness ==
  /\ fRead.done
  /\ fRead.via = "meta"
  /\ LET hd == FileMeta_get_page_handle(fDisk[AddrFileId(fRead.addr)], fRead.addr).val
     IN /\ hd.offset % BlockSize # 0
        /\ (hd.offset + hd.size) % BlockSize # 0
        /\ hd.offset > BlockSize
  /\ fRead.result = Some(fWritten[fRead.addr])

RECURSIVE SumSizes(_, _)
SumSizes(handles, D) ==
  IF D = {} THEN 0
  ELSE LET a == CHOOSE a \in D : TRUE
       IN handles[a].size + SumSizes(handles, D \ {a})

\* The addresses that a list of delete-page records names.
AddrsOf(delete_pages) == {delete_pages[i] : i \in 1..Len(delete_pages)}

\* add_file_info has just returned: the pending FileInfo went into the map.
AddFileInfoStep == fPending.some /\ ~fPending'.some

\* C11: frame effect of add_file_info(current_map, new_file_info,
\* delete_pages). The returned map holds new_file_info under its file id; for
\* every address of delete_pages the handle is gone from the live set of its
\* file and the effective size of that file is lower by exactly the size of
\* that handle; every other handle of every file is still there with the
\* offset and the size it had.
C11_AddFileInfoFrame ==
  [][AddFileInfoStep =>
       LET id == fPending.info.meta.file_id
           gone == AddrsOf(fPending.delete_pages)
       IN /\ DOMAIN fVersion' = DOMAIN fVersion \cup {id}
          /\ fVersion'[id] = fPending.info
          /\ \A f \in DOMAIN fVersion \ {id} :
               LET old == fVersion[f].handles
                   dead == gone \cap DOMAIN old
               IN /\ DOMAIN fVersion'[f].handles = DOMAIN old \ dead
                  /\ \A a \in DOMAIN old \ dead :
                       fVersion'[f].handles[a] = old[a]
                  /\ fVersion'[f].effective_size =
                       fVersion[f].effective_size - SumSizes(old, dead)
                  /\ fVersion'[f].meta = fVersion[f].meta]_vars

\* A second file has been folded into the map with a delete-page record that
\* took one of two pages of the first file, whose other page is still live.
C11_Witness ==
  /\ ~fPending.some
  /\ ~fBuilder.open
  /\ ~fRecovered.done
  /\ DOMAIN fVersion = {1, 2}
  /\ Len(fDisk[2].delete_pages) = 1
  /\ Len(fDisk[1].page_table) = 2
  /\ Cardinality(DOMAIN fVersion[1].handles) = 1
  /\ fDisk[2].delete_pages[1] \notin DOMAIN fVersion[1].handles
  /\ fVersion[1].effective_size > 0
  /\ Cardinality(DOMAIN fVersion[2].handles) = 1

\* C14: recovery_base_file_infos(known_files) returns a recovery error, an
\* Err value, when a file id of known_files has no file on disk, and it
\* ignores the files that are on disk and not in known_files: the map it
\* returns then holds exactly the known files.
C14_RecoveryError ==
  fRecovered.done =>
    IF fRecovered.known \subseteq DOMAIN fDisk
    THEN /\ fRecovered.tag = "Ok"
         /\ DOMAIN fRecovered.files = fRecovered.known
    ELSE fRecovered.tag = "Err"

\* C15: every handle {offset, size} that the file builder assigns to a page
\* added with add_page has an offset that is a multiple of block_size, for
\* every sequence of page sizes: in the open builder, in the page table of
\* every finished file and in the FileInfo that finish returned.
C15_HandlesAligned ==
  /\ \A i \in 1..Len(fBuilder.pages) : fBuilder.pages[i].offset % BlockSize = 0
  /\ \A f \in DOMAIN fDisk :
       \A i \in 1..Len(fDisk[f].page_table) :
         fDisk[f].page_table[i].offset % BlockSize = 0
  /\ \A f \in DOMAIN fVersion :
       \A a \in DOMAIN fVersion[f].handles :
         fVersion[f].handles[a].offset % BlockSize = 0

\* The addresses of the pages that were added to the file f, and the bytes
\* that were added before the page at address a: page ids go up with every
\* add_page, so the addresses of a file are in the order of their adds.
AddedTo(f) == {a \in DOMAIN fWritten : AddrFileId(a) = f}

AddedBefore(f, a) == {b \in AddedTo(f) : b < a}

\* The builder of file f is closed by this step: finish wrote the file and
\* returned its FileInfo.
FinishStep(f) ==
  /\ fBuilder.open
  /\ fBuilder.file_id = f
  /\ ~fBuilder'.open

\* The page table, the delete list, the meta and the FileInfo of file f
\* account for the pages and the delete addresses that were added.
FinishAccounts(f, file, info, added_deletes) ==
  /\ info.effective_size = SumLens(fWritten, AddedTo(f))
  /\ file.meta.total_page_size = SumLens(fWritten, AddedTo(f))
  /\ Len(file.page_table) = Cardinality(AddedTo(f))
  /\ {file.page_table[i].addr : i \in 1..Len(file.page_table)} = AddedTo(f)
  /\ \A i \in 1..Len(file.page_table) :
       LET a == file.page_table[i].addr
       IN /\ Cardinality(AddedBefore(f, a)) = i - 1
          /\ file.page_table[i].size = Len(fWritten[a])
          /\ file.page_table[i].offset = SumLens(fWritten, AddedBefore(f, a))
          /\ FileInfo_get_page_handle(info, a) =
               Some([offset |-> SumLens(fWritten, AddedBefore(f, a)),
                     size |-> Len(fWritten[a])])
  /\ DOMAIN info.handles = AddedTo(f)
  /\ file.delete_pages = added_deletes

\* C24: the file builder emits pages in the order supplied and accounts them
\* exactly. Each add_delete_pages of one address adds one entry to the delete
\* list, and after finish() the FileInfo's effective_size and the meta's
\* total_page_size are the sum of the byte lengths passed to add_page, the
\* page table holds one entry per added page, the delete list one entry per
\* added delete address, and the handle of the i-th added page has its byte
\* length for size and the sum of the lengths of the pages added before it
\* for offset.
C24_BuilderAccounts ==
  [][/\ \A f \in 1..MaxFiles :
          FinishStep(f) =>
            FinishAccounts(f, fDisk'[f], fPending'.info, fBuilder.delete_pages)
     /\ (fBuilder.open /\ fBuilder'.open
           /\ fBuilder'.delete_pages # fBuilder.delete_pages) =>
          /\ Len(fBuilder'.delete_pages) = Len(fBuilder.delete_pages) + 1
          /\ SubSeq(fBuilder'.delete_pages, 1, Len(fBuilder.delete_pages))
               = fBuilder.delete_pages]_vars

\* A finished file of three pages of one block each: the third page is at
\* the offset of two blocks and the FileInfo counts three blocks.
C24_Witness ==
  /\ fPending.some
  /\ fPending.info.meta.file_id = 1
  /\ Len(fDisk[1].page_table) = 3
  /\ \A i \in 1..3 : fDisk[1].page_table[i].size = BlockSize
  /\ fDisk[1].page_table[3].offset = 2 * BlockSize
  /\ fPending.info.effective_size = 3 * BlockSize

\* ------------------------------------------------------------------------
\* engine/src/tree/archive/page.rs : BaseIndex, DeltaIndex
\* ------------------------------------------------------------------------

\* size_of_val(&value) of a PageHandle { id: u64, epoch: u64 }.
SizeOfPageHandle == 16

\* BaseIndex::new
BaseIndex_new == [size |-> 0, lowest |-> <<>>, highest |-> <<>>,
                  children |-> [k \in {} |-> PageHandle(0, 0)]]

\* BaseIndex::get : children.range(..=key).next_back()
BaseIndex_get(self, key) ==
  LET below == {k \in DOMAIN self.children : LexLeq(k, key)}
  IN IF below = {} THEN None
     ELSE Some(self.children[CHOOSE k \in below : \A j \in below : LexLeq(j, k)])

\* BaseIndex::add : an insert over an old child gives back only the size of
\* the old value.
BaseIndex_add(self, key, value) ==
  LET added == self.size + Len(key) + SizeOfPageHandle
  IN [self EXCEPT
        !.size = IF key \in DOMAIN self.children
                 THEN added - SizeOfPageHandle ELSE added,
        !.children = [k \in DOMAIN self.children \cup {key} |->
                        IF k = key THEN value ELSE self.children[k]]]

\* PageIndex { lowest, highest, handle }
PageIndex(lowest, highest, handle) ==
  [lowest |-> lowest, highest |-> highest, handle |-> handle]

\* DeltaIndex::new
DeltaIndex_new == [children |-> <<>>]

\* DeltaIndex::add
DeltaIndex_add(self, index) == [children |-> Append(self.children, index)]

\* DeltaIndex::get : the first child whose range has the key.
RECURSIVE DeltaIndex_get_from(_, _)
DeltaIndex_get_from(children, key) ==
  IF children = <<>> THEN None
  ELSE IF InRange(key, Head(children).lowest, Head(children).highest)
  THEN Some(Head(children).handle)
  ELSE DeltaIndex_get_from(Tail(children), key)

DeltaIndex_get(self, key) == DeltaIndex_get_from(self.children, key)

\* DeltaIndex::merge : the entries of other go behind those of self.
DeltaIndex_merge(self, other) == [children |-> self.children \o other.children]

\* The greatest key of a non-empty set.
MaxKey(S) == CHOOSE k \in S : \A j \in S : LexLeq(j, k)

\* The fold of BaseIndex::apply and BaseIndex::retain over the children.
ChildrenSize(children) ==
  LET keys == SortedKeys(DOMAIN children)
      sum[i \in 0..Len(keys)] ==
        IF i = 0 THEN 0 ELSE sum[i - 1] + Len(keys[i]) + SizeOfPageHandle
  IN sum[Len(keys)]

\* One iteration of the loop of BaseIndex::apply : the child at the greatest
\* separator <= index.lowest takes the epoch of the entry when it has the
\* entry's page id; otherwise the entry is inserted at index.lowest. Then the
\* separators in (lowest, highest) are removed.
BaseIndex_apply_one(children, index) ==
  LET below == {k \in DOMAIN children : LexLeq(k, index.lowest)}
      merged ==
        IF below # {} /\ children[MaxKey(below)].id = index.handle.id
        THEN [children EXCEPT ![MaxKey(below)].epoch = index.handle.epoch]
        ELSE [k \in DOMAIN children \cup {index.lowest} |->
                IF k = index.lowest THEN index.handle ELSE children[k]]
      kept == {k \in DOMAIN merged :
                 \/ LexLeq(k, index.lowest)
                 \/ (LexLeq(index.highest, k) /\ index.highest # <<>>)}
  IN Restrict(merged, kept)

\* The entries of a delta applied from the last one to the first one.
RECURSIVE BaseIndex_apply_rev(_, _)
BaseIndex_apply_rev(children, entries) ==
  IF entries = <<>> THEN children
  ELSE BaseIndex_apply_rev(
         BaseIndex_apply_one(children, entries[Len(entries)]),
         SubSeq(entries, 1, Len(entries) - 1))

\* An apply that goes through the entries from the first one to the last one.
RECURSIVE BaseIndex_apply_forward(_, _)
BaseIndex_apply_forward(self, delta) ==
  IF delta.children = <<>>
  THEN [self EXCEPT !.size = ChildrenSize(self.children)]
  ELSE BaseIndex_apply_forward(
         [self EXCEPT !.children = BaseIndex_apply_one(@, Head(delta.children))],
         [children |-> Tail(delta.children)])

\* BaseIndex::apply
BaseIndex_apply(self, delta) ==
  LET children == BaseIndex_apply_rev(self.children, delta.children)
  IN [self EXCEPT !.children = children, !.size = ChildrenSize(children)]

\* A split whose middle key sits at position floor(n / 2).
BaseIndex_split_lower_middle(self) ==
  LET keys == SortedKeys(DOMAIN self.children)
      nth == Len(keys) \div 2
  IN IF nth < Len(keys) /\ nth >= 1
     THEN LET rkeys == {keys[i] : i \in nth..Len(keys)}
          IN Some([size |-> ChildrenSize(Restrict(self.children, rkeys)),
                   lowest |-> keys[nth + 1],
                   highest |-> self.highest,
                   children |-> Restrict(self.children, rkeys)])
     ELSE None

\* BaseIndex::split : keys().nth(nth) is the key at 0-based position nth, and
\* skip(nth - 1) starts one child before it.
BaseIndex_split(self) ==
  LET keys == SortedKeys(DOMAIN self.children)
      nth == (Len(keys) + 1) \div 2
  IN IF nth < Len(keys)
     THEN LET rkeys == {keys[i] : i \in nth..Len(keys)}
          IN Some([size |-> ChildrenSize(Restrict(self.children, rkeys)),
                   lowest |-> keys[nth + 1],
                   highest |-> self.highest,
                   children |-> Restrict(self.children, rkeys)])
     ELSE None

\* BaseIndex::retain
BaseIndex_retain(self, lowest, highest) ==
  LET kept == {k \in DOMAIN self.children :
                 LexLeq(lowest, k) /\ (LexLess(k, highest) \/ highest = <<>>)}
  IN [size |-> ChildrenSize(Restrict(self.children, kept)),
      lowest |-> lowest,
      highest |-> highest,
      children |-> Restrict(self.children, kept)]

\* ------------------------------------------------------------------------
\* tree/stats.rs : Stats
\* ------------------------------------------------------------------------

\* TxnStats::default
TxnStats_default == [get |-> 0, write |-> 0, split_page |-> 0, consolidate_page |-> 0]

\* Stats::default
Stats_default == [success |-> TxnStats_default, restart |-> TxnStats_default]

\* ------------------------------------------------------------------------
\* Spec : the concurrent tree over the page table
\* ------------------------------------------------------------------------

\* The writes that the callers start in one run. The n-th write that starts
\* carries LSN n: the callers draw their LSNs from one sequence.
MaxWrites == 3

\* The greatest page id. ROOT_ID is the root, the first leaf is page 1, the
\* ids above it are given out by splits.
MaxPageId == 2

\* The gets of one run.
MaxGets == 1

ROOT_ID == 0

\* The consolidation threshold: a leaf is consolidated when the chain length
\* of its head exceeds C_leaf.
C_leaf == 2

PageIds == 0..MaxPageId

LeafIds == 1..MaxPageId

\* The writer threads.
Writers == {1, 2}

\* The raw keys of the tree's callers, and the keys that range tests are
\* probed with.
TreeKeys == {<<1>>, <<2>>}

TreeProbe == TreeKeys \cup {<<>>, <<1, 1>>, <<3>>}

\* A leaf entry ((raw, lsn), value).
LeafEntry(raw, lsn, value) == [key |-> [raw |-> raw, lsn |-> lsn], value |-> value]

\* The entries of a set in Key order: raw ascending, then lsn descending.
RECURSIVE SortEntries(_)
SortEntries(S) ==
  IF S = {} THEN <<>>
  ELSE LET m == CHOOSE e \in S : \A o \in S : o = e \/ KeyLess(e.key, o.key)
       IN <<m>> \o SortEntries(S \ {m})

\* A base data page: sorted entries and the bounds [lowest, highest).
LeafBase(lowest, highest, entries) ==
  [lowest |-> lowest, highest |-> highest, entries |-> entries]

\* A delta data page with one entry.
LeafDelta(entry) == [entries |-> <<entry>>]

\* The chain of frames behind an address: header.next is followed to null.
RECURSIVE TreeWalk(_, _)
TreeWalk(heap, addr) ==
  IF addr = 0 THEN <<>>
  ELSE <<heap[addr]>> \o TreeWalk(heap, heap[addr].header.next)

\* The first entry of a page with the raw key and an LSN <= lsn.
RECURSIVE LeafFind(_, _, _)
LeafFind(entries, raw, lsn) ==
  IF entries = <<>> THEN None
  ELSE IF Head(entries).key.raw = raw /\ Head(entries).key.lsn <= lsn
  THEN Some(Head(entries).value)
  ELSE LeafFind(Tail(entries), raw, lsn)

\* The walk of a leaf chain, head to base: a split descriptor that covers the
\* key sends the operation to the right page, and the first entry with the
\* raw key and an LSN <= lsn wins.
RECURSIVE LeafLookup(_, _, _)
LeafLookup(chain, raw, lsn) ==
  IF chain = <<>> THEN [right |-> None, value |-> None]
  ELSE LET page == Head(chain)
       IN IF page.kind = "SplitData"
          THEN IF SplitNode_covers(page.data, raw).some
               THEN [right |-> SplitNode_covers(page.data, raw), value |-> None]
               ELSE LeafLookup(Tail(chain), raw, lsn)
          ELSE IF LeafFind(page.data.entries, raw, lsn).some
               THEN [right |-> None, value |-> LeafFind(page.data.entries, raw, lsn)]
               ELSE LeafLookup(Tail(chain), raw, lsn)

\* The right page that a leaf chain hands the key over to, if any.
ChainRedirect(chain, raw) == LeafLookup(chain, raw, 0).right

\* What the visitor of get is called with: Some(bytes) for a Put, None for a
\* Delete and for no entry.
VisitorArg(value) ==
  IF value.some /\ value.val.kind = "Put" THEN Some(value.val.bytes) ELSE None

\* The walk of an inner chain, head to base: the first DeltaIndex that has the
\* key gives the child, then the BaseIndex.
RECURSIVE IndexLookup(_, _)
IndexLookup(chain, raw) ==
  IF chain = <<>> THEN None
  ELSE LET page == Head(chain)
       IN IF page.kind = "DeltaIndex"
          THEN IF DeltaIndex_get(page.data, raw).some
               THEN DeltaIndex_get(page.data, raw)
               ELSE IndexLookup(Tail(chain), raw)
          ELSE BaseIndex_get(page.data, raw)

\* All entries of the data frames of a chain.
ChainEntries(chain) ==
  UNION {{chain[i].data.entries[j] : j \in 1..Len(chain[i].data.entries)} :
           i \in {i \in 1..Len(chain) : chain[i].kind \in {"DeltaData", "BaseData"}}}

\* The base data at the end of a leaf chain.
LeafChainBase(chain) == chain[Len(chain)].data

\* Consolidation of a leaf chain: the entries of the deltas and of the base
\* in Key order, in one base frame with the epoch of the replaced head.
TreeConsolidate(chain, addr) ==
  Frame(addr, PageHeader_with_epoch(chain[1].header.epoch), "BaseData",
        LeafBase(LeafChainBase(chain).lowest, LeafChainBase(chain).highest,
                 SortEntries(ChainEntries(chain))))

\* Split, step 1 and 2: the middle key is the raw key of the first entry of
\* the upper half, the right base holds [middle, highest).
LeafSplit(base) ==
  LET n == Len(base.entries)
  IN IF n < 2 THEN None
     ELSE LET middle == base.entries[(n \div 2) + 1].key.raw
          IN IF ~LexLess(base.lowest, middle) THEN None
             ELSE Some(LeafBase(middle, base.highest,
                         SelectSeq(base.entries,
                                   LAMBDA e : LexLeq(middle, e.key.raw))))

\* install(id, new, expected) : the CAS on the page-table slot.
PageTable_install(table, id, new, expected) ==
  IF table[id] = expected
  THEN [ok |-> TRUE, table |-> [table EXCEPT ![id] = new]]
  ELSE [ok |-> FALSE, table |-> table]

\* The frames of a heap and one more frame.
HeapPut(heap, frame) ==
  [a \in DOMAIN heap \cup {frame.addr} |-> IF a = frame.addr THEN frame ELSE heap[a]]

\* The addresses of the frames that the page table leads to.
Reachable(heap, table) ==
  UNION {{TreeWalk(heap, table[id])[i].addr : i \in 1..Len(TreeWalk(heap, table[id]))} :
           id \in DOMAIN table}

\* Reclamation: a frame that no slot of the page table leads to is freed.
Reclaim(heap, table) == Restrict(heap, Reachable(heap, table))

\* The address of a new frame: the least address that is not the address of
\* a live frame and that no operation in flight holds as its observed head.
AllocAddr(heap, held) ==
  LET used == DOMAIN heap \cup held
  IN CHOOSE a \in 1..(Cardinality(used) + 1) :
       a \notin used /\ \A b \in 1..(Cardinality(used) + 1) : b \notin used => a <= b

\* The page id that the allocator gives out next: the least free leaf id.
AllocId(table) ==
  CHOOSE id \in LeafIds : table[id] = 0 /\ \A j \in LeafIds : table[j] = 0 => id <= j

IdleOp == [pc |-> "idle", key |-> <<>>, lsn |-> 0, value |-> DeleteValue,
           id |-> 0, head |-> 0]

IdleGet == [pc |-> "idle", key |-> <<>>, lsn |-> 0, id |-> 0, chain |-> <<>>,
            result |-> None]

IdleSmo == [pc |-> "idle", id |-> 0, head |-> 0, right |-> 0]

\* The tree after open: a root with one child, an empty leaf.
tInit ==
  /\ tHeap = <<Frame(1, PageHeader_new, "BaseIndex",
                     BaseIndex_add(BaseIndex_new, <<>>, PageHandle(1, 0))),
               Frame(2, PageHeader_new, "BaseData", LeafBase(<<>>, <<>>, <<>>))>>
  /\ tTable = [id \in PageIds |-> IF id = ROOT_ID THEN 1 ELSE IF id = 1 THEN 2 ELSE 0]
  /\ tLsn = 0
  /\ tLog = <<>>
  /\ tW = [w \in Writers |-> IdleOp]
  /\ tR = IdleGet
  /\ tSmo = IdleSmo
  /\ tStats = Stats_default

\* A get that has called its visitor returns to its caller before another
\* step is taken: the return touches nothing that the other threads see.
GetReturns == tR.pc = "done"

\* The observed heads of the operations in flight.
Held == {tW[w].head : w \in Writers} \cup {tSmo.head}

\* The child of the key in the chain of the root.
RootChild(raw) == IndexLookup(TreeWalk(tHeap, tTable[ROOT_ID]), raw).val.id

\* Table::put / Table::delete : the caller starts a write with the next LSN
\* on the first thread that is idle, and the descent finds the child of the
\* key at the root.
WStart(w, key, value) ==
  /\ tW[w].pc = "idle"
  /\ ~GetReturns
  /\ \A o \in Writers : tW[o].pc = "idle" => w <= o
  /\ tLsn < MaxWrites
  /\ tLsn' = tLsn + 1
  /\ tLog' = Append(tLog, [key |-> key, value |-> value, done |-> FALSE])
  /\ tW' = [tW EXCEPT ![w] = [pc |-> "leaf", key |-> key, lsn |-> tLsn + 1,
                              value |-> value, id |-> RootChild(key), head |-> 0]]
  /\ UNCHANGED <<tHeap, tTable, tR, tSmo, tStats>>
  /\ UNCHANGED tOthers

\* Descent, at the root, of a write that restarts: the chain of the root
\* gives the child of the key.
WRoot(w) ==
  /\ tW[w].pc = "root"
  /\ ~GetReturns
  /\ tW' = [tW EXCEPT ![w].pc = "leaf", ![w].id = RootChild(tW[w].key)]
  /\ UNCHANGED <<tHeap, tTable, tLsn, tLog, tR, tSmo, tStats>>
  /\ UNCHANGED tOthers

\* Descent, at a leaf: the head of the page is loaded; a split descriptor
\* that covers the key sends the write to the right page, else the leaf is
\* reached with this head.
WLeaf(w) ==
  /\ tW[w].pc = "leaf"
  /\ ~GetReturns
  /\ LET head == tTable[tW[w].id]
         right == ChainRedirect(TreeWalk(tHeap, head), tW[w].key)
     IN tW' = [tW EXCEPT ![w] = IF right.some
                                 THEN [@ EXCEPT !.id = right.val.id]
                                 ELSE [@ EXCEPT !.pc = "install", !.head = head]]
  /\ UNCHANGED <<tHeap, tTable, tLsn, tLog, tR, tSmo, tStats>>
  /\ UNCHANGED tOthers

\* An install that counts a conflict as a write that succeeded.
WInstall_counts_conflict(w) ==
  /\ tW[w].pc = "install"
  /\ ~GetReturns
  /\ LET addr == AllocAddr(tHeap, Held)
         head == tW[w].head
         new == Frame(addr, PageHeader_with_next(tHeap[head].header, head),
                      "DeltaData",
                      LeafDelta(LeafEntry(tW[w].key, tW[w].lsn, tW[w].value)))
         cas == PageTable_install(tTable, tW[w].id, addr, head)
     IN IF cas.ok
        THEN /\ tHeap' = Reclaim(HeapPut(tHeap, new), cas.table)
             /\ tTable' = cas.table
             /\ tLog' = [tLog EXCEPT ![tW[w].lsn].done = TRUE]
             /\ tStats' = [tStats EXCEPT !.success.write = @ + 1]
             /\ tW' = [tW EXCEPT ![w] = IdleOp]
        ELSE /\ tStats' = [tStats EXCEPT !.success.write = @ + 1]
             /\ tW' = [tW EXCEPT ![w].pc = "root", ![w].id = ROOT_ID, ![w].head = 0]
             /\ UNCHANGED <<tHeap, tTable, tLog>>
  /\ UNCHANGED <<tLsn, tR, tSmo>>
  /\ UNCHANGED tOthers

\* Write, steps 2 and 3: a one-entry delta is linked on the observed head and
\* installed with expected = head. A conflict frees the delta, counts a
\* restart and starts over from the root.
WInstall(w) ==
  /\ tW[w].pc = "install"
  /\ ~GetReturns
  /\ LET addr == AllocAddr(tHeap, Held)
         head == tW[w].head
         new == Frame(addr, PageHeader_with_next(tHeap[head].header, head),
                      "DeltaData",
                      LeafDelta(LeafEntry(tW[w].key, tW[w].lsn, tW[w].value)))
         cas == PageTable_install(tTable, tW[w].id, addr, head)
     IN IF cas.ok
        THEN /\ tHeap' = Reclaim(HeapPut(tHeap, new), cas.table)
             /\ tTable' = cas.table
             /\ tLog' = [tLog EXCEPT ![tW[w].lsn].done = TRUE]
             /\ tStats' = [tStats EXCEPT !.success.write = @ + 1]
             /\ tW' = [tW EXCEPT ![w] = IdleOp]
        ELSE /\ tStats' = [tStats EXCEPT !.restart.write = @ + 1]
             /\ tW' = [tW EXCEPT ![w].pc = "root", ![w].id = ROOT_ID, ![w].head = 0]
             /\ UNCHANGED <<tHeap, tTable, tLog>>
  /\ UNCHANGED <<tLsn, tR, tSmo>>
  /\ UNCHANGED tOthers

\* The leaf that a descent for the key ends at in this state: the child that
\* the root gives, then the right pages that split descriptors send it to.
RECURSIVE FollowRight(_, _)
FollowRight(id, raw) ==
  LET right == ChainRedirect(TreeWalk(tHeap, tTable[id]), raw)
  IN IF right.some THEN FollowRight(right.val.id, raw) ELSE id

LeafOf(raw) == FollowRight(RootChild(raw), raw)

\* Table::get : the descent to the leaf of the key and the scan of its chain
\* from head to base; the visitor is called with what the first matching
\* entry gives. A get changes nothing that the other threads see, so its
\* loads are taken together, at the moment of the last one.
RGet(key, lsn) ==
  /\ tR.pc = "idle"
  /\ tStats.success.get < MaxGets
  /\ LET id == LeafOf(key)
         chain == TreeWalk(tHeap, tTable[id])
     IN tR' = [pc |-> "done", key |-> key, lsn |-> lsn, id |-> id, chain |-> chain,
               result |-> VisitorArg(LeafLookup(chain, key, lsn).value)]
  /\ tStats' = [tStats EXCEPT !.success.get = @ + 1]
  /\ UNCHANGED <<tHeap, tTable, tLsn, tLog, tW, tSmo>>
  /\ UNCHANGED tOthers

\* Consolidation starts on a leaf whose chain is longer than C_leaf and has
\* no split descriptor: the head is observed.
SConsolidateBegin(id) ==
  /\ tSmo.pc = "idle"
  /\ ~GetReturns
  /\ tTable[id] # 0
  /\ LET chain == TreeWalk(tHeap, tTable[id])
     IN /\ chain[1].header.len > C_leaf
        /\ \A i \in 1..Len(chain) : chain[i].kind # "SplitData"
  /\ tSmo' = [pc |-> "consolidate", id |-> id, head |-> tTable[id], right |-> 0]
  /\ UNCHANGED <<tHeap, tTable, tLsn, tLog, tW, tR, tStats>>
  /\ UNCHANGED tOthers

\* Consolidation installs the new base in place of the observed head; a
\* conflict drops it.
SConsolidateInstall ==
  /\ tSmo.pc = "consolidate"
  /\ ~GetReturns
  /\ LET addr == AllocAddr(tHeap, Held)
         new == TreeConsolidate(TreeWalk(tHeap, tSmo.head), addr)
         cas == PageTable_install(tTable, tSmo.id, addr, tSmo.head)
     IN IF cas.ok
        THEN /\ tHeap' = Reclaim(HeapPut(tHeap, new), cas.table)
             /\ tTable' = cas.table
             /\ tStats' = [tStats EXCEPT !.success.consolidate_page = @ + 1]
        ELSE /\ tStats' = [tStats EXCEPT !.restart.consolidate_page = @ + 1]
             /\ UNCHANGED <<tHeap, tTable>>
  /\ tSmo' = IdleSmo
  /\ UNCHANGED <<tLsn, tLog, tW, tR>>
  /\ UNCHANGED tOthers

\* Split, steps 1 and 2: the right base of a base head is installed in the
\* empty slot of a new page id.
SSplitPrepare(id) ==
  /\ tSmo.pc = "idle"
  /\ ~GetReturns
  /\ tTable[id] # 0
  /\ tHeap[tTable[id]].kind = "BaseData"
  /\ LeafSplit(tHeap[tTable[id]].data).some
  /\ \E r \in LeafIds : tTable[r] = 0
  /\ LET addr == AllocAddr(tHeap, Held)
         r == AllocId(tTable)
         new == Frame(addr, PageHeader_new, "BaseData",
                      LeafSplit(tHeap[tTable[id]].data).val)
     IN /\ tHeap' = HeapPut(tHeap, new)
        /\ tTable' = PageTable_install(tTable, r, addr, 0).table
        /\ tSmo' = [pc |-> "split", id |-> id, head |-> tTable[id], right |-> r]
  /\ UNCHANGED <<tLsn, tLog, tW, tR, tStats>>
  /\ UNCHANGED tOthers

\* Split, step 3: the split descriptor is linked on the observed head with a
\* new epoch and installed. On a conflict the right base is abandoned.
SSplitPost ==
  /\ tSmo.pc = "split"
  /\ ~GetReturns
  /\ LET addr == AllocAddr(tHeap, Held)
         head == tSmo.head
         base == tHeap[head].data
         right == tHeap[tTable[tSmo.right]]
         new == Frame(addr, PageHeader_with_next_epoch(tHeap[head].header, head),
                      "SplitData",
                      [lowest |-> base.lowest, middle |-> right.data.lowest,
                       highest |-> base.highest,
                       right_page |-> PageHandle(tSmo.right, right.header.epoch + 1)])
         cas == PageTable_install(tTable, tSmo.id, addr, head)
     IN IF cas.ok
        THEN /\ tHeap' = HeapPut(tHeap, new)
             /\ tTable' = cas.table
             /\ tSmo' = [tSmo EXCEPT !.pc = "parent", !.head = addr]
             /\ UNCHANGED tStats
        ELSE /\ tTable' = [tTable EXCEPT ![tSmo.right] = 0]
             /\ tHeap' = Reclaim(tHeap, [tTable EXCEPT ![tSmo.right] = 0])
             /\ tStats' = [tStats EXCEPT !.restart.split_page = @ + 1]
             /\ tSmo' = IdleSmo
  /\ UNCHANGED <<tLsn, tLog, tW, tR>>
  /\ UNCHANGED tOthers

\* Split, step 4: a DeltaIndex entry for the right page is posted on the
\* parent with a new epoch.
SParentPost ==
  /\ tSmo.pc = "parent"
  /\ ~GetReturns
  /\ LET addr == AllocAddr(tHeap, Held)
         node == tHeap[tSmo.head].data
         root == tTable[ROOT_ID]
         new == Frame(addr, PageHeader_with_next_epoch(tHeap[root].header, root),
                      "DeltaIndex",
                      DeltaIndex_add(DeltaIndex_new,
                        PageIndex(node.middle, node.highest,
                                  PageHandle(node.right_page.id,
                                             tHeap[tTable[tSmo.right]].header.epoch))))
     IN /\ tHeap' = HeapPut(tHeap, new)
        /\ tTable' = PageTable_install(tTable, ROOT_ID, addr, root).table
  /\ tStats' = [tStats EXCEPT !.success.split_page = @ + 1]
  /\ tSmo' = IdleSmo
  /\ UNCHANGED <<tLsn, tLog, tW, tR>>
  /\ UNCHANGED tOthers

\* Table::get returns to its caller.
RReturn ==
  /\ GetReturns
  /\ tR' = IdleGet
  /\ UNCHANGED <<tHeap, tTable, tLsn, tLog, tW, tSmo, tStats>>
  /\ UNCHANGED tOthers

tNext ==
  \/ \E w \in Writers, key \in TreeKeys :
       WStart(w, key, PutValue(<<tLsn + 1>>)) \/ WStart(w, key, DeleteValue)
  \/ \E w \in Writers : WRoot(w)
  \/ \E w \in Writers : WLeaf(w)
  \/ \E w \in Writers : WInstall(w)
  \/ \E key \in TreeKeys, lsn \in 1..MaxWrites : RGet(key, lsn)
  \/ RReturn
  \/ \E id \in LeafIds : SConsolidateBegin(id)
  \/ SConsolidateInstall
  \/ \E id \in LeafIds : SSplitPrepare(id)
  \/ SSplitPost
  \/ SParentPost

\* ------------------------------------------------------------------------
\* Properties of Spec
\* ------------------------------------------------------------------------

\* The writes whose call has returned. When the get is done they are the
\* writes that completed before it started.
Completed == {l \in 1..tLsn : tLog[l].done}

\* The writes on the key with an LSN in (lo, hi], write l excluded.
OtherWrites(l, key, lo, hi) ==
  {o \in 1..tLsn : o # l /\ tLog[o].key = key /\ lo < o /\ o <= hi}

\* C1: a put(k, lsn, v) that completed before a get(k, lsn') started, with
\* lsn' >= lsn and no other write on k at an LSN in (lsn, lsn'], makes the get
\* call its visitor with Some(v), whatever the interleaving of the operations.
C1_PutVisible ==
  tR.pc = "done" =>
    \A l \in Completed :
      (/\ tLog[l].key = tR.key
       /\ tLog[l].value.kind = "Put"
       /\ tR.lsn >= l
       /\ OtherWrites(l, tR.key, l, tR.lsn) = {})
      => tR.result = Some(tLog[l].value.bytes)

\* C2: after a delete(k, lsn) has completed, a get(k, lsn') with lsn' >= lsn
\* and no put on k at an LSN in (lsn, lsn'] calls its visitor with None, and
\* a get below the LSN of the delete still gives the value of the earlier put.
C2_DeleteVisible ==
  tR.pc = "done" =>
    /\ \A d \in Completed :
         (/\ tLog[d].key = tR.key
          /\ tLog[d].value.kind = "Delete"
          /\ tR.lsn >= d
          /\ \A o \in OtherWrites(d, tR.key, d, tR.lsn) : tLog[o].value.kind # "Put")
         => tR.result = None
    /\ \A d \in Completed, p \in Completed :
         (/\ tLog[d].key = tR.key /\ tLog[d].value.kind = "Delete"
          /\ tLog[p].key = tR.key /\ tLog[p].value.kind = "Put"
          /\ p <= tR.lsn /\ tR.lsn < d
          /\ OtherWrites(p, tR.key, p, tR.lsn) = {})
         => tR.result = Some(tLog[p].value.bytes)

\* C3: what a get(k, request_lsn) returns, the first entry of the chain from
\* head to base with raw key k and an LSN <= request_lsn, is the version of k
\* with the greatest LSN <= request_lsn among the entries of the chain (a
\* Delete or no version gives not-found).
C3_GreatestVersion ==
  tR.pc = "done" =>
    LET versions == {e \in ChainEntries(tR.chain) :
                       e.key.raw = tR.key /\ e.key.lsn <= tR.lsn}
    IN tR.result =
         IF versions = {} THEN None
         ELSE VisitorArg(Some((CHOOSE e \in versions :
                                 \A o \in versions : o.key.lsn <= e.key.lsn).value))

\* How often the entry of write l is in the chain of the leaf of its key.
EntryCount(l) ==
  LET chain == TreeWalk(tHeap, tTable[LeafOf(tLog[l].key)])
      entry == LeafEntry(tLog[l].key, l, tLog[l].value)
  IN Cardinality({<<i, j>> \in (1..Len(chain)) \X (1..(MaxWrites + 1)) :
                    /\ chain[i].kind \in {"DeltaData", "BaseData"}
                    /\ j <= Len(chain[i].data.entries)
                    /\ chain[i].data.entries[j] = entry})

\* C4: the writes of a leaf are linearized by the CAS on its slot. No two
\* frames are linked on the same observed head (of the installs on one head
\* exactly one succeeds), a delta that lost is in no chain and in no frame
\* (its write is not complete and has restarted), the deltas in memory are
\* the successful writes, and the chain of the leaf of a key holds the entry
\* of every completed write exactly once.
C4_WritesLinearized ==
  /\ \A a, b \in DOMAIN tHeap :
       (a # b /\ tHeap[a].header.next # 0)
       => tHeap[a].header.next # tHeap[b].header.next
  /\ \A l \in 1..tLsn : EntryCount(l) = IF tLog[l].done THEN 1 ELSE 0
  /\ DOMAIN tHeap = Reachable(tHeap, tTable)
  /\ Cardinality({l \in 1..tLsn : tLog[l].done}) = tStats.success.write
  /\ \A w \in Writers : tW[w].pc # "idle" => ~tLog[tW[w].lsn].done

\* Two writes met on one head: one of them lost the CAS and restarted, and
\* all writes of the run have completed.
C4_Witness ==
  /\ tStats.restart.write > 0
  /\ tLsn = MaxWrites
  /\ \A l \in 1..tLsn : tLog[l].done
  /\ \A w \in Writers : tW[w].pc = "idle"
  /\ \E a, b \in DOMAIN tHeap :
       /\ tHeap[a].kind = "DeltaData"
       /\ tHeap[b].kind = "DeltaData"
       /\ tHeap[a].header.next = b

\* The key belongs to the page whose chain starts at head: it is in the range
\* of the base and below the middle key of every split descriptor.
OnPage(raw, chain) ==
  /\ chain # <<>>
  /\ LET base == LeafChainBase(chain) IN InRange(raw, base.lowest, base.highest)
  /\ \A i \in 1..Len(chain) :
       chain[i].kind = "SplitData" => LexLess(raw, chain[i].data.middle)

\* The split of the descriptor is pending: the root does not yet lead the
\* middle key to the right page.
SplitPending(node) ==
  IndexLookup(TreeWalk(tHeap, tTable[ROOT_ID]), node.middle).val.id
    # node.right_page.id

Conflicts == {w \in Writers : tW[w].pc = "install" /\ tW'[w].pc = "root"}

StatFields == {"get", "write", "split_page", "consolidate_page"}

MaxFrames == 4

\* The global reclamation epoch stops at this value.
MaxGlobalEpoch == 2

Readers == {1, 2}

FrameAddrs == 1..MaxFrames

\* A frame that was never allocated.
NoFrame == [state |-> "none", next |-> 0, list |-> 0]

OutOfGuard == [pc |-> "out", epoch |-> 0, at |-> 0]

\* The next address that the allocator hands out, or 0 when it has none left.
NextFrame(frames) ==
  IF \E a \in FrameAddrs : frames[a].state = "none"
  THEN CHOOSE a \in FrameAddrs :
         /\ frames[a].state = "none"
         /\ \A b \in FrameAddrs : frames[b].state = "none" => a <= b
  ELSE 0

\* The frames of the chain that starts at addr, the head included.
RECURSIVE ChainFrames(_, _)
ChainFrames(frames, addr) ==
  IF addr = 0 THEN {}
  ELSE {addr} \cup ChainFrames(frames, frames[addr].next)

\* The epoch list takes the unlinked frames: they are queued on the list of
\* the global epoch at the time of the unlink.
Retire(frames, addrs, epoch) ==
  [a \in FrameAddrs |->
     IF a \in addrs THEN [frames[a] EXCEPT !.state = "retired", !.list = epoch]
     ELSE frames[a]]

\* The guards that are entered, as the epochs they were entered in.
ActiveEpochs(guards) == {guards[r].epoch : r \in {q \in Readers : guards[q].pc # "out"}}

\* An epoch list that is freed whether or not earlier guards are still in.
Drained_ignores_guards(guards, list) == TRUE

\* The list of an epoch has drained when every guard entered in that epoch or
\* in an earlier one has exited.
Drained(guards, list) == \A e \in ActiveEpochs(guards) : e > list

\* The frames of a drained list are freed.
FreeList(frames, list) ==
  [a \in FrameAddrs |->
     IF frames[a].state = "retired" /\ frames[a].list = list
     THEN [frames[a] EXCEPT !.state = "freed"]
     ELSE frames[a]]

\* One slot holding a base frame, no guard entered.
eInit ==
  /\ eEpoch = 0
  /\ eSlot = 1
  /\ eFrames = [a \in FrameAddrs |->
                  IF a = 1 THEN [state |-> "live", next |-> 0, list |-> 0]
                  ELSE NoFrame]
  /\ eG = [r \in Readers |-> OutOfGuard]

\* A thread enters a guard: it is pinned to the global epoch.
EEnter(r) ==
  /\ eG[r].pc = "out"
  /\ eG' = [eG EXCEPT ![r] = [pc |-> "in", epoch |-> eEpoch, at |-> 0]]
  /\ UNCHANGED <<eEpoch, eSlot, eFrames>>
  /\ UNCHANGED eOthers

\* load(id) under the guard: the reader holds the head of the chain.
ELoad(r) ==
  /\ eG[r].pc = "in"
  /\ eG' = [eG EXCEPT ![r].pc = "at", ![r].at = eSlot]
  /\ UNCHANGED <<eEpoch, eSlot, eFrames>>
  /\ UNCHANGED eOthers

\* The reader follows next from the frame it holds.
EWalk(r) ==
  /\ eG[r].pc = "at"
  /\ eFrames[eG[r].at].next # 0
  /\ eG' = [eG EXCEPT ![r].at = eFrames[eG[r].at].next]
  /\ UNCHANGED <<eEpoch, eSlot, eFrames>>
  /\ UNCHANGED eOthers

\* The thread leaves its guard and keeps no frame.
EExit(r) ==
  /\ eG[r].pc # "out"
  /\ eG' = [eG EXCEPT ![r] = OutOfGuard]
  /\ UNCHANGED <<eEpoch, eSlot, eFrames>>
  /\ UNCHANGED eOthers

\* A writer installs a delta on the head by CAS: nothing is unlinked.
EInstallDelta ==
  /\ NextFrame(eFrames) # 0
  /\ LET new == NextFrame(eFrames)
     IN /\ eFrames' = [eFrames EXCEPT
                         ![new] = [state |-> "live", next |-> eSlot, list |-> 0]]
        /\ eSlot' = new
  /\ UNCHANGED <<eEpoch, eG>>
  /\ UNCHANGED eOthers

\* A consolidation installs a new base by CAS: the frames of the old chain
\* are unlinked from the page table and queued on the current epoch list.
EInstallBase ==
  /\ NextFrame(eFrames) # 0
  /\ LET new == NextFrame(eFrames)
         placed == [eFrames EXCEPT
                      ![new] = [state |-> "live", next |-> 0, list |-> 0]]
     IN /\ eFrames' = Retire(placed, ChainFrames(eFrames, eSlot), eEpoch)
        /\ eSlot' = new
  /\ UNCHANGED <<eEpoch, eG>>
  /\ UNCHANGED eOthers

\* The global epoch moves on.
EAdvance ==
  /\ eEpoch < MaxGlobalEpoch
  /\ eEpoch' = eEpoch + 1
  /\ UNCHANGED <<eSlot, eFrames, eG>>
  /\ UNCHANGED eOthers

\* The frames of an epoch list that has drained are freed.
ECollect(list) ==
  /\ \E a \in FrameAddrs : eFrames[a].state = "retired" /\ eFrames[a].list = list
  /\ Drained(eG, list)
  /\ eFrames' = FreeList(eFrames, list)
  /\ UNCHANGED <<eEpoch, eSlot, eG>>
  /\ UNCHANGED eOthers

eNext ==
  \/ \E r \in Readers : EEnter(r)
  \/ \E r \in Readers : ELoad(r)
  \/ \E r \in Readers : EWalk(r)
  \/ \E r \in Readers : EExit(r)
  \/ EInstallDelta
  \/ EInstallBase
  \/ EAdvance
  \/ \E list \in 0..MaxGlobalEpoch : ECollect(list)

\* ------------------------------------------------------------------------
\* Properties of SpecEpoch
\* ------------------------------------------------------------------------

MaxCalls == 3

\* The native I/O errors are told apart by a code in 1..MaxIoErrors.
MaxIoErrors == 2

\* page_store::Error : Corrupted, or Io carrying the native error.
PageError_Corrupted == [kind |-> "Corrupted", native |-> 0]

PageError_Io(native) == [kind |-> "Io", native |-> native]

PageErrors == {PageError_Corrupted} \cup {PageError_Io(n) : n \in 1..MaxIoErrors}

\* What the page store hands to a facade operation.
PageOk == [ok |-> TRUE, err |-> PageError_Corrupted]

PageErr(err) == [ok |-> FALSE, err |-> err]

PageResults == {PageOk} \cup {PageErr(e) : e \in PageErrors}

\* enum Error : Corrupted is its only variant.
Error_Corrupted == [tag |-> "Err", kind |-> "Corrupted", native |-> 0]

\* The operation returned normally.
Returned_Ok == [tag |-> "Ok", kind |-> "", native |-> 0]

\* unreachable!("unexpected error: {:?}", e) : the thread panics.
Unreachable(err) == [tag |-> "panic", kind |-> err.kind, native |-> err.native]

\* impl From<PageError> for Error
Error_from(err) ==
  IF err.kind = "Corrupted" THEN Error_Corrupted
  ELSE Unreachable(err)

\* What the caller of a facade operation gets for a result of the page store:
\* the ? of the operation converts the error with From.
Facade_result(res) ==
  IF res.ok THEN Returned_Ok ELSE Error_from(res.err)

FacadeOps == {"get", "put", "delete"}

\* The caller's thread is gone once a call has panicked.
Panicked == xLog # <<>> /\ xLog[Len(xLog)].outcome.tag = "panic"

xInit ==
  /\ xPending = <<>>
  /\ xLog = <<>>

\* Table::get / put / delete : the operation runs and the page store answers.
XCall(op, res) ==
  /\ xPending = <<>>
  /\ ~Panicked
  /\ Len(xLog) < MaxCalls
  /\ xPending' = <<[op |-> op, res |-> res]>>
  /\ UNCHANGED xLog
  /\ UNCHANGED xOthers

\* The operation is over: the caller has its Result, or the thread panicked.
XReturn ==
  /\ xPending # <<>>
  /\ xLog' = Append(xLog, [op |-> xPending[1].op, res |-> xPending[1].res,
                           outcome |-> Facade_result(xPending[1].res)])
  /\ xPending' = <<>>
  /\ UNCHANGED xOthers

xNext ==
  \/ \E op \in FacadeOps, res \in PageResults : XCall(op, res)
  \/ XReturn

\* ------------------------------------------------------------------------
\* Properties of SpecFacade
\* ------------------------------------------------------------------------

\* C13: every error of the page store reaches the caller of the facade as an
\* error value: a Corrupted page-store error becomes Error::Corrupted, an I/O
\* error is wrapped and returned unchanged, and converting a page-store error
\* never aborts the operation.
C13_ErrorsSurface ==
  \A i \in 1..Len(xLog) :
    ~xLog[i].res.ok =>
      /\ xLog[i].outcome.tag = "Err"
      /\ xLog[i].outcome.kind = xLog[i].res.err.kind
      /\ xLog[i].outcome.native = xLog[i].res.err.native

\* ------------------------------------------------------------------------
\* SpecPage : one base page, data or index, built, retained, split, applied
\* ------------------------------------------------------------------------

\* The most records or children that the page is given.
MaxChildren == 3

\* The most entries of the delta index.
MaxDelta == 2

\* The separator keys of the index page and the bounds of both kinds of page.
IndexKeys == {<<>>, <<1>>, <<1, 2>>, <<2>>}

\* The page id that stands for the page whose lowest key is key: the rank of
\* the key among the separator keys.
KeyIds ==
  LET keys == SortedKeys(IndexKeys)
  IN [k \in IndexKeys |-> CHOOSE i \in 1..Len(keys) : keys[i] = k]

KeyId(key) == KeyIds[key]

\* The handles that an entry of the delta index may carry.
AnyHandles == {PageHandle(KeyId(k), e) : k \in IndexKeys, e \in {0, 1}}

\* The ranges [lowest, highest) that retain is called with.
RetainBounds ==
  {b \in [lowest : {<<>>, <<1>>}, highest : {<<>>, <<2>>}] : TRUE}

NoOp == [op |-> "", before |-> <<>>, delta |-> DeltaIndex_new, right |-> None,
         lowest |-> <<>>, highest |-> <<>>]

\* The keys of the page: record keys or separators.
EntryKeys(kind, page) ==
  IF kind = "BaseData" THEN DOMAIN page.records ELSE DOMAIN page.children

\* Whether an entry [lowest, highest) -> handle is what the split of a child
\* posts on a parent with these bounds and children: lowest is inside the
\* range of a child and is no separator, highest is the upper end of that
\* child's range, and no child has the page id of the handle.
PostedBySplit(page, children, index) ==
  LET above == {k \in DOMAIN children : LexLess(index.lowest, k)}
  IN /\ index.lowest \notin DOMAIN children
     /\ LexLeq(page.lowest, index.lowest)
     /\ LexLess(index.lowest, page.highest) \/ page.highest = <<>>
     /\ \E k \in DOMAIN children : LexLess(k, index.lowest)
     /\ index.highest = IF above = {} THEN page.highest ELSE MinKey(above)
     /\ \A k \in DOMAIN children : children[k].id # index.handle.id

\* Whether every entry of a delta, from the oldest (last) to the newest
\* (first), was posted by the split of a child of the page as it was then.
RECURSIVE PostedBySplits(_, _, _)
PostedBySplits(page, children, entries) ==
  IF entries = <<>> THEN TRUE
  ELSE LET index == entries[Len(entries)]
       IN /\ PostedBySplit(page, children, index)
          /\ PostedBySplits(page,
               [k \in DOMAIN children \cup {index.lowest} |->
                  IF k = index.lowest THEN index.handle ELSE children[k]],
               SubSeq(entries, 1, Len(entries) - 1))

\* The children that a lookup through the delta and the base sees.
RECURSIVE Overlay(_, _)
Overlay(children, entries) ==
  IF entries = <<>> THEN children
  ELSE LET index == entries[Len(entries)]
       IN Overlay([k \in DOMAIN children \cup {index.lowest} |->
                     IF k = index.lowest THEN index.handle ELSE children[k]],
                  SubSeq(entries, 1, Len(entries) - 1))

pInit ==
  /\ pKind \in {"BaseData", "BaseIndex"}
  /\ pPage = IF pKind = "BaseData" THEN BaseData_new ELSE BaseIndex_new
  /\ pDelta = DeltaIndex_new
  /\ pLast = NoOp

\* How far the size field may run ahead of the entries before the model
\* stops overwriting: each overwrite adds the length of its key once more.
MaxDrift == 2

\* A put is consolidated into the data page: of a key that the page does not
\* hold, or of one that it holds, whose value the put overwrites.
PPut(key, value) ==
  /\ pKind = "BaseData"
  /\ InRange(key, pPage.lowest, pPage.highest)
  /\ IF key \in DOMAIN pPage.records
     THEN pPage.size - RecordsSize(pPage.records, DOMAIN pPage.records) < MaxDrift
     ELSE Cardinality(DOMAIN pPage.records) < MaxChildren
  /\ pPage' = BaseData_apply(pPage, DeltaData_add(DeltaData_new, key, Some(value)))
  /\ pLast' = NoOp
  /\ UNCHANGED <<pKind, pDelta>>
  /\ UNCHANGED pOthers

\* A delete is consolidated into the data page: of a key that the page holds
\* or of one that it does not hold.
PDelete(key) ==
  /\ pKind = "BaseData"
  /\ InRange(key, pPage.lowest, pPage.highest)
  /\ pPage' = BaseData_apply(pPage, DeltaData_add(DeltaData_new, key, None))
  /\ pLast' = NoOp
  /\ UNCHANGED <<pKind, pDelta>>
  /\ UNCHANGED pOthers

\* BaseIndex::add : a child at a separator of the page's range.
PAddChild(key) ==
  /\ pKind = "BaseIndex"
  /\ pDelta = DeltaIndex_new
  /\ Cardinality(DOMAIN pPage.children) < MaxChildren
  /\ InRange(key, pPage.lowest, pPage.highest)
  /\ key \notin DOMAIN pPage.children
  /\ pPage' = BaseIndex_add(pPage, key, PageHandle(KeyId(key), 0))
  /\ pLast' = NoOp
  /\ UNCHANGED <<pKind, pDelta>>
  /\ UNCHANGED pOthers

\* BaseData::retain / BaseIndex::retain
PRetain(lowest, highest) ==
  /\ pDelta = DeltaIndex_new
  /\ pPage' = IF pKind = "BaseData" THEN BaseData_retain(pPage, lowest, highest)
              ELSE BaseIndex_retain(pPage, lowest, highest)
  /\ pLast' = [NoOp EXCEPT !.op = "retain", !.before = pPage,
                           !.lowest = lowest, !.highest = highest]
  /\ UNCHANGED <<pKind, pDelta>>
  /\ UNCHANGED pOthers

\* BaseData::split / BaseIndex::split
PSplit ==
  /\ pDelta = DeltaIndex_new
  /\ pLast' = [NoOp EXCEPT !.op = "split", !.before = pPage,
                 !.right = IF pKind = "BaseData" THEN BaseData_split(pPage)
                           ELSE BaseIndex_split(pPage)]
  /\ UNCHANGED <<pKind, pPage, pDelta>>
  /\ UNCHANGED pOthers

\* The split of a child posts the entry of its right page on the parent: the
\* new entry goes in front of the entries that are there.
PPostSplit(middle) ==
  /\ pKind = "BaseIndex"
  /\ Len(pDelta.children) < MaxDelta
  /\ LET seen == Overlay(pPage.children, pDelta.children)
         above == {k \in DOMAIN seen : LexLess(middle, k)}
         index == PageIndex(middle,
                            IF above = {} THEN pPage.highest ELSE MinKey(above),
                            PageHandle(KeyId(middle), 0))
     IN /\ PostedBySplit(pPage, seen, index)
        /\ pDelta' = DeltaIndex_merge(DeltaIndex_add(DeltaIndex_new, index), pDelta)
  /\ pLast' = NoOp
  /\ UNCHANGED <<pKind, pPage>>
  /\ UNCHANGED pOthers

\* DeltaIndex::add of any entry with a non-empty range, on a page whose
\* children are those that add gave it.
PPostAny(lowest, highest, handle) ==
  /\ pKind = "BaseIndex"
  /\ pDelta = DeltaIndex_new
  /\ \A k \in DOMAIN pPage.children : pPage.children[k] = PageHandle(KeyId(k), 0)
  /\ LexLess(lowest, highest) \/ highest = <<>>
  /\ pDelta' = DeltaIndex_add(DeltaIndex_new, PageIndex(lowest, highest, handle))
  /\ pLast' = NoOp
  /\ UNCHANGED <<pKind, pPage>>
  /\ UNCHANGED pOthers

\* BaseIndex::apply : the delta index is consolidated into the base.
PApply ==
  /\ pKind = "BaseIndex"
  /\ pDelta # DeltaIndex_new
  /\ pPage' = BaseIndex_apply(pPage, pDelta)
  /\ pLast' = [NoOp EXCEPT !.op = "apply", !.before = pPage, !.delta = pDelta]
  /\ pDelta' = DeltaIndex_new
  /\ UNCHANGED pKind
  /\ UNCHANGED pOthers

pNext ==
  \/ \E key \in PageKeys, value \in PageValues : PPut(key, value)
  \/ \E key \in PageKeys : PDelete(key)
  \/ \E key \in IndexKeys : PAddChild(key)
  \/ \E b \in RetainBounds : PRetain(b.lowest, b.highest)
  \/ PSplit
  \/ \E middle \in IndexKeys : PPostSplit(middle)
  \/ \E lowest \in IndexKeys, highest \in IndexKeys, handle \in AnyHandles :
       PPostAny(lowest, highest, handle)
  \/ PApply

\* ------------------------------------------------------------------------
\* Properties of SpecPage
\* ------------------------------------------------------------------------

\* The keys that lookups and range tests are probed with.
IndexProbe == IndexKeys \cup PageKeys \cup {<<0>>, <<1, 1>>, <<1, 3>>, <<3>>}

\* C17: the key bounds of the page that a split produces are exact. When
\* split() of a data page or of an index page returns a right page r, every
\* record key or separator key stored in r lies in [r.lowest, r.highest), an
\* empty r.highest meaning +infinity.
C17_SplitBoundsExact ==
  (pLast.op = "split" /\ pLast.right.some) =>
    LET r == pLast.right.val
    IN \A k \in EntryKeys(pKind, r) :
         /\ LexLeq(r.lowest, k)
         /\ r.highest # <<>> => LexLess(k, r.highest)

\* C18: split() of a base page, data or index, returns no right page exactly
\* when the page holds fewer than two entries. For n >= 2 entries the middle
\* key, the lowest of the right page, is the key at sorted position
\* ceil(n / 2) counted from 0, the smallest key of the upper half of the
\* page's entries, and both halves are non-empty.
C18_SplitMiddle ==
  pLast.op = "split" =>
    LET keys == SortedKeys(EntryKeys(pKind, pLast.before))
        n == Len(keys)
        half == (n \div 2) + (n % 2)
    IN /\ pLast.right.some <=> n >= 2
       /\ n >= 2 =>
            LET r == pLast.right.val
                upper == {keys[i] : i \in (half + 1)..n}
                lower == {keys[i] : i \in 1..half}
            IN /\ r.lowest = keys[half + 1]
               /\ upper # {}
               /\ lower # {}
               /\ r.lowest = MinKey(upper)
               /\ \A k \in lower : LexLess(k, r.lowest)
               /\ upper \subseteq EntryKeys(pKind, r)

\* An index page of three children has been split: the middle is the third
\* separator.
C18_Witness ==
  /\ pLast.op = "split"
  /\ pKind = "BaseIndex"
  /\ Cardinality(DOMAIN pLast.before.children) = 3
  /\ pLast.right.some
  /\ pLast.right.val.lowest = <<2>>
  /\ pLast.before.lowest = <<>>

\* Whether the lookup in the page after an apply agrees with the lookup
\* through the delta and the page before it, for the key k.
ApplyAgrees(before, delta, after, k) ==
  BaseIndex_get(after, k) =
    IF DeltaIndex_get(delta, k).some THEN DeltaIndex_get(delta, k)
    ELSE BaseIndex_get(before, k)

\* The statement of C19 without a condition on the delta or on the key: for
\* every base index b, every delta index d and every key k, after b.apply(d)
\* the child that b.get(k) returns is d.get(k) when an entry of d covers k,
\* and the child that b.get(k) returned before when none does.
C19_ApplyAgreesAlways ==
  pLast.op = "apply" =>
    \A k \in IndexProbe : ApplyAgrees(pLast.before, pLast.delta, pPage, k)

\* C19: consolidating an inner page agrees with the overlay lookup when the
\* entries of the delta were posted by splits of children of the page and
\* the key is in the range of the page: after b.apply(d) the child that
\* b.get(k) returns is d.get(k) when an entry of d covers k, the first
\* covering entry winning, and the child that b.get(k) returned before the
\* apply when no entry of d covers k.
C19_ApplyAgreesOverlay ==
  (/\ pLast.op = "apply"
   /\ PostedBySplits(pLast.before, pLast.before.children, pLast.delta.children)) =>
    \A k \in IndexProbe :
      (/\ LexLeq(pLast.before.lowest, k)
       /\ LexLess(k, pLast.before.highest) \/ pLast.before.highest = <<>>) =>
        ApplyAgrees(pLast.before, pLast.delta, pPage, k)

\* A delta of two entries posted by splits has been applied; a key is covered
\* by both entries and the page gives the child of the newer one, and another
\* key is covered by none.
C19_Witness ==
  /\ pLast.op = "apply"
  /\ Len(pLast.delta.children) = 2
  /\ PostedBySplits(pLast.before, pLast.before.children, pLast.delta.children)
  /\ \E k \in IndexProbe :
       /\ \A i \in 1..2 : InRange(k, pLast.delta.children[i].lowest,
                                      pLast.delta.children[i].highest)
       /\ BaseIndex_get(pPage, k) = Some(pLast.delta.children[1].handle)
       /\ pLast.delta.children[1].handle # pLast.delta.children[2].handle
  /\ \E k \in IndexProbe :
       /\ ~DeltaIndex_get(pLast.delta, k).some
       /\ BaseIndex_get(pPage, k).some

\* The split node that is posted on a page for the right page of its split.
SplitNodeOf(page, right) ==
  [lowest |-> page.lowest, middle |-> right.lowest, highest |-> page.highest,
   right_page |-> PageHandle(2, 0)]

\* C20: an empty highest bound is +infinity wherever a range is tested.
\* retain(lowest, "") keeps every key >= lowest and no other; a split node
\* and a delta-index entry with an empty highest cover every key >= their
\* middle / lowest; BaseIndex::apply of an entry with an empty highest leaves
\* no separator greater than the lowest of the entry; the right page of a
\* split has the highest of the page that was split, empty or not.
C20_EmptyHighestIsInfinity ==
  /\ (pLast.op = "retain" /\ pLast.highest = <<>>) =>
       EntryKeys(pKind, pPage) =
         {k \in EntryKeys(pKind, pLast.before) : LexLeq(pLast.lowest, k)}
  /\ (pLast.op = "split" /\ pLast.right.some) =>
       /\ pLast.right.val.highest = pLast.before.highest
       /\ pLast.before.highest = <<>> =>
            LET node == SplitNodeOf(pLast.before, pLast.right.val)
            IN \A k \in IndexProbe :
                 LexLeq(node.middle, k) =>
                   SplitNode_covers(node, k) = Some(node.right_page)
  /\ \A i \in 1..Len(pDelta.children) :
       LET index == pDelta.children[i]
       IN index.highest = <<>> =>
            \A k \in IndexProbe :
              LexLeq(index.lowest, k) =>
                /\ DeltaIndex_get(DeltaIndex_add(DeltaIndex_new, index), k)
                     = Some(index.handle)
                /\ DeltaIndex_get(pDelta, k).some
  /\ (pLast.op = "apply" /\ pLast.delta.children[1].highest = <<>>) =>
       \A k \in DOMAIN pPage.children :
         LexLeq(k, pLast.delta.children[1].lowest)

\* An entry with an empty highest has been applied to an index page that had
\* a separator above the lowest of the entry and one below it.
C20_Witness ==
  /\ pLast.op = "apply"
  /\ pLast.delta.children[1].highest = <<>>
  /\ \E k \in DOMAIN pLast.before.children :
       LexLess(pLast.delta.children[1].lowest, k)
  /\ \E k \in DOMAIN pLast.before.children :
       LexLess(k, pLast.delta.children[1].lowest)
  /\ Cardinality(DOMAIN pPage.children) = 2

\* C27: the size field of a base page always equals the sum of key length
\* plus value length over the entries it holds (key length plus handle size
\* per child for an index page): after every sequence of puts of new keys,
\* puts that overwrite a key, deletes, adds, applies and retains, and for the
\* right page that a split returns.
C27_SizeIsSum ==
  /\ pKind = "BaseData" =>
       pPage.size = RecordsSize(pPage.records, DOMAIN pPage.records)
  /\ pKind = "BaseIndex" => pPage.size = ChildrenSize(pPage.children)
  /\ (pLast.op = "split" /\ pLast.right.some) =>
       pLast.right.val.size =
         IF pKind = "BaseData"
         THEN RecordsSize(pLast.right.val.records, DOMAIN pLast.right.val.records)
         ELSE ChildrenSize(pLast.right.val.children)

\* ------------------------------------------------------------------------
\* page/sorted_page.rs, engine/src/tree/page/sorted_page.rs : rank, seek,
\* seek_back and the iterator of a sorted page
\* ------------------------------------------------------------------------

\* Most entries of a page of SpecQuery.
MaxQueryEntries == 3

\* Ord for Key : the Ordering of a against b.
Key_cmp(a, b) ==
  IF a = b THEN "Equal" ELSE IF KeyLess(a, b) THEN "Less" ELSE "Greater"

RankOk(i) == [tag |-> "Ok", index |-> i]

RankErr(i) == [tag |-> "Err", index |-> i]

\* A loop that is still running after more rounds than the page has entries.
RankDiverged == [tag |-> "diverged", index |-> 0]

\* The key of the item at a position of the page.
SortedPageRef_key(self, index) ==
  Key_decode_from(SortedPageRef_item(self, index).val).key

\* A search that takes right for a closed end: it steps below the middle.
RECURSIVE SortedPageRef_rank_loop_closed(_, _, _, _, _)
SortedPageRef_rank_loop_closed(self, target, left, right, fuel) ==
  IF ~(left < right) THEN RankErr(left)
  ELSE IF fuel = 0 THEN RankDiverged
  ELSE LET mid == (left + right) \div 2
           ord == Key_cmp(SortedPageRef_key(self, mid), target)
       IN CASE ord = "Less" ->
                 SortedPageRef_rank_loop_closed(self, target, mid + 1, right, fuel - 1)
            [] ord = "Greater" ->
                 SortedPageRef_rank_loop_closed(self, target, left, mid - 1, fuel - 1)
            [] ord = "Equal" -> RankOk(mid)

\* The loop of SortedPageRef::rank : each round halves [left, right).
RECURSIVE SortedPageRef_rank_loop(_, _, _, _, _)
SortedPageRef_rank_loop(self, target, left, right, fuel) ==
  IF ~(left < right) THEN RankErr(left)
  ELSE IF fuel = 0 THEN RankDiverged
  ELSE LET mid == (left + right) \div 2
           ord == Key_cmp(SortedPageRef_key(self, mid), target)
       IN CASE ord = "Less" ->
                 SortedPageRef_rank_loop(self, target, mid + 1, right, fuel - 1)
            [] ord = "Greater" ->
                 SortedPageRef_rank_loop(self, target, left, mid, fuel - 1)
            [] ord = "Equal" -> RankOk(mid)

\* SortedPageRef::rank of the page crate : Ok(position) or Err(insertion point).
SortedPageRef_rank(self, target) ==
  SortedPageRef_rank_loop(self, target, 0, SortedPageRef_len(self),
                          SortedPageRef_len(self))

\* SortedPageRef::rank of the engine : the same search with the comparison
\* taken from the target's side, giving the position alone.
RECURSIVE SortedPageRef_rank_index_loop(_, _, _, _, _)
SortedPageRef_rank_index_loop(self, target, left, right, fuel) ==
  IF ~(left < right) THEN left
  ELSE IF fuel = 0 THEN 0 - 1
  ELSE LET mid == (left + right) \div 2
           ord == Key_cmp(target, SortedPageRef_key(self, mid))
       IN CASE ord = "Greater" ->
                 SortedPageRef_rank_index_loop(self, target, mid + 1, right, fuel - 1)
            [] ord = "Less" ->
                 SortedPageRef_rank_index_loop(self, target, left, mid, fuel - 1)
            [] ord = "Equal" -> mid

SortedPageRef_rank_index(self, target) ==
  SortedPageRef_rank_index_loop(self, target, 0, SortedPageRef_len(self),
                                SortedPageRef_len(self))

\* SortedPageRef::seek
SortedPageRef_seek(self, target) ==
  SortedPageRef_get(self, SortedPageRef_rank_index(self, target))

\* The loop of SortedPageRef::seek_back over (0..=index).rev().
RECURSIVE SortedPageRef_seek_back_from(_, _, _)
SortedPageRef_seek_back_from(self, target, i) ==
  IF i < 0 THEN None
  ELSE LET entry == SortedPageRef_get(self, i)
       IN IF entry.some /\ Key_cmp(target, entry.val.key) # "Less" THEN entry
          ELSE SortedPageRef_seek_back_from(self, target, i - 1)

\* A seek_back that gives up when the position rank returned holds no entry.
SortedPageRef_seek_back_at_rank(self, target) ==
  LET index == SortedPageRef_rank_index(self, target)
      entry == SortedPageRef_get(self, index)
  IN IF ~entry.some THEN None
     ELSE SortedPageRef_seek_back_from(self, target, index)

\* SortedPageRef::seek_back
SortedPageRef_seek_back(self, target) ==
  SortedPageRef_seek_back_from(self, target, SortedPageRef_rank_index(self, target))

\* SortedPageIter::new
SortedPageIter_new == [next |-> 0, last |-> None]

\* ForwardIter::next for SortedPageIter
SortedPageIter_next(self, page) ==
  LET item == SortedPageRef_get(page, self.next)
  IN IF item.some THEN [next |-> self.next + 1, last |-> item]
     ELSE [next |-> self.next, last |-> None]

\* ForwardIter::last for SortedPageIter
SortedPageIter_last(self) == self.last

\* A seek that leaves the last entry in place.
SortedPageIter_seek_keeps_last(self, page, target) ==
  [self EXCEPT !.next = SortedPageRef_rank_index(page, target)]

\* SeekableIter::seek for SortedPageIter
SortedPageIter_seek(self, page, target) ==
  [next |-> SortedPageRef_rank_index(page, target), last |-> None]

\* RewindableIter::rewind for SortedPageIter
SortedPageIter_rewind(self) == [next |-> 0, last |-> None]

\* ------------------------------------------------------------------------
\* SpecQuery : a sorted page is searched and iterated
\* ------------------------------------------------------------------------

\* One entry for each key: a tombstone at lsn 1 and a put at lsn 300.
QueryEntries ==
  {[key |-> k, value |-> IF k.lsn = 1 THEN DeleteValue ELSE PutValue(<<9>>)] :
     k \in CodecKeys}

\* The entry lists of at most MaxQueryEntries entries with strictly
\* increasing keys.
RECURSIVE QueryListsOfLen(_)
QueryListsOfLen(n) ==
  IF n = 0 THEN {<<>>}
  ELSE {Append(l, e) : l \in QueryListsOfLen(n - 1), e \in QueryEntries}

QueryLists ==
  {l \in UNION {QueryListsOfLen(n) : n \in 0..MaxQueryEntries} :
     \A i \in 1..(Len(l) - 1) : KeyLess(l[i].key, l[i + 1].key)}

NoCall == [op |-> "none", target |-> <<>>, result |-> None]

\* The number of entries of the page whose key is less than t.
Below(t) == Cardinality({i \in 1..Len(qEntries) : KeyLess(qEntries[i].key, t)})

\* The 0-based position of the entry list, as an entry or None past the end.
EntryAt(pos) == IF pos < Len(qEntries) THEN Some(qEntries[pos + 1]) ELSE None

qPage == SortedPageRef_new(qContent)

qInit ==
  /\ qEntries \in QueryLists
  /\ qContent = SortedPageBuilder_build(qEntries)
  /\ qCall = NoCall
  /\ qIter = SortedPageIter_new
  /\ qTrace = [op |-> "new", ret |-> None, want |-> None, due |-> 0]

\* page.rank(target), by both implementations
QRank(target) ==
  /\ qCall' = [op |-> "rank", target |-> target,
               result |-> [page |-> SortedPageRef_rank(qPage, target),
                           engine |-> SortedPageRef_rank_index(qPage, target)]]
  /\ UNCHANGED <<qEntries, qContent, qIter, qTrace>>
  /\ UNCHANGED qOthers

\* page.seek(target)
QSeek(target) ==
  /\ qCall' = [op |-> "seek", target |-> target,
               result |-> SortedPageRef_seek(qPage, target)]
  /\ UNCHANGED <<qEntries, qContent, qIter, qTrace>>
  /\ UNCHANGED qOthers

\* page.seek_back(target)
QSeekBack(target) ==
  /\ qCall' = [op |-> "seek_back", target |-> target,
               result |-> SortedPageRef_seek_back(qPage, target)]
  /\ UNCHANGED <<qEntries, qContent, qIter, qTrace>>
  /\ UNCHANGED qOthers

\* iter.next() : the trace keeps what the call returned and what was due.
QIterNext ==
  /\ qIter' = SortedPageIter_next(qIter, qPage)
  /\ qTrace' = [op |-> "next", ret |-> SortedPageIter_last(qIter'),
                want |-> EntryAt(qTrace.due),
                due |-> IF qTrace.due < Len(qEntries) THEN qTrace.due + 1
                        ELSE qTrace.due]
  /\ UNCHANGED <<qEntries, qContent, qCall>>
  /\ UNCHANGED qOthers

\* iter.seek(target) : the first entry with key >= target is due.
QIterSeek(target) ==
  /\ qIter' = SortedPageIter_seek(qIter, qPage, target)
  /\ qTrace' = [op |-> "seek", ret |-> None, want |-> None, due |-> Below(target)]
  /\ UNCHANGED <<qEntries, qContent, qCall>>
  /\ UNCHANGED qOthers

\* iter.rewind() : the first entry is due.
QIterRewind ==
  /\ qIter' = SortedPageIter_rewind(qIter)
  /\ qTrace' = [op |-> "rewind", ret |-> None, want |-> None, due |-> 0]
  /\ UNCHANGED <<qEntries, qContent, qCall>>
  /\ UNCHANGED qOthers

qNext ==
  \/ \E target \in CodecKeys : QRank(target)
  \/ \E target \in CodecKeys : QSeek(target)
  \/ \E target \in CodecKeys : QSeekBack(target)
  \/ QIterNext
  \/ \E target \in CodecKeys : QIterSeek(target)
  \/ QIterRewind

\* ------------------------------------------------------------------------
\* Properties of SpecQuery
\* ------------------------------------------------------------------------

\* What rank has to return for a target on the entry list: Ok(i) when the
\* key at position i is the target, else Err(number of keys below it).
RankOf(t) ==
  IF \E i \in 1..Len(qEntries) : qEntries[i].key = t
  THEN RankOk((CHOOSE i \in 1..Len(qEntries) : qEntries[i].key = t) - 1)
  ELSE RankErr(Below(t))

\* C21: on a sorted page with strictly increasing keys, rank(t) terminates and
\* returns Ok(i) exactly when the key at position i equals t, and otherwise
\* Err(p) with p the number of keys less than t (0 for an empty page, len()
\* when t is above every key); the engine's rank returns the same position.
C21_RankIsBinarySearch ==
  qCall.op = "rank" =>
    /\ qCall.result.page = RankOf(qCall.target)
    /\ qCall.result.engine = RankOf(qCall.target).index

\* A rank on a page of three entries that missed between the second and the
\* third key and returned the insertion point 2.
C21_Witness ==
  /\ Len(qEntries) = 3
  /\ qCall.op = "rank"
  /\ qCall.result.page = RankErr(2)
  /\ KeyLess(qEntries[2].key, qCall.target)
  /\ KeyLess(qCall.target, qEntries[3].key)

\* The number of entries of the page whose key is no greater than t.
AtOrBelow(t) ==
  Cardinality({i \in 1..Len(qEntries) : ~KeyLess(t, qEntries[i].key)})

C23_IteratorRestartable ==
  /\ qTrace.op = "next" => qTrace.ret = qTrace.want
  /\ SortedPageIter_last(qIter) = IF qTrace.op = "next" THEN qTrace.ret ELSE None
  /\ qTrace.op \in {"new", "rewind"} => qTrace.due = 0

\* An iterator whose most recent next() returned the last of three entries.
C23_Witness ==
  /\ Len(qEntries) = 3
  /\ qTrace.op = "next"
  /\ qTrace.ret = Some(qEntries[3])
  /\ qIter.next = 3

\* ------------------------------------------------------------------------
\* engine/src/tree/archive/page.rs : Page::link, Page::unlink, Drop for Page
\* ------------------------------------------------------------------------

\* The frame addresses of SpecDrop; 0 is the null next.
MaxDropFrames == 4

DropAddrs == 1..MaxDropFrames

\* A frame that has not been allocated, and a live frame with a next.
FreeFrame == [state |-> "free", next |-> 0, removed |-> FALSE]

LiveFrame(next) == [state |-> "live", next |-> next, removed |-> FALSE]

\* An unlink that leaves the header as it is.
Page_unlink_keeps_next(frames, a) == frames

\* Page::unlink
Page_unlink(frames, a) == [frames EXCEPT ![a].next = 0]

\* Drop for Page, from the frame that next names, and the drop of the
\* PageBuf that owns a frame: the page's own drop runs, then the frame is
\* released. Each round of the loop takes the frame at next into a PageBuf,
\* reads its next, clears it, and drops the PageBuf at the end of the round;
\* a removed page ends the loop and its PageBuf is dropped as it is. The
\* releases are recorded with the next the frame held when it was released.
RECURSIVE Page_drop_from(_, _, _)
RECURSIVE PageBuf_drop(_, _, _)
Page_drop_from(frames, next, released) ==
  IF next = 0 THEN [frames |-> frames, released |-> released]
  ELSE IF frames[next].removed THEN PageBuf_drop(frames, next, released)
  ELSE LET after == frames[next].next
           done == PageBuf_drop([frames EXCEPT ![next].next = 0], next, released)
       IN Page_drop_from(done.frames, after, done.released)

PageBuf_drop(frames, a, released) ==
  LET done == Page_drop_from(frames, frames[a].next, released)
  IN [frames |-> [done.frames EXCEPT ![a].state = "released"],
      released |-> Append(done.released,
                          [addr |-> a, next |-> done.frames[a].next,
                           was |-> done.frames[a].state])]

\* ------------------------------------------------------------------------
\* SpecDrop : heads are linked, replaced, unlinked and dropped
\* ------------------------------------------------------------------------

\* The frames that next leads to from a frame, the frame itself excluded.
RECURSIVE Behind(_, _)
Behind(frames, a) ==
  IF frames[a].next = 0 THEN <<>>
  ELSE <<frames[a].next>> \o Behind(frames, frames[a].next)

SeqRange(s) == {s[i] : i \in 1..Len(s)}

\* The live frames that no live frame links to: each is held by its owner.
Heads(frames) ==
  {a \in DropAddrs :
     /\ frames[a].state = "live"
     /\ \A b \in DropAddrs : frames[b].state = "live" => frames[b].next # a}

\* A base page is live; no Remove page is built anywhere in the code.
dInit ==
  /\ dFrames = [a \in DropAddrs |-> IF a = 1 THEN LiveFrame(0) ELSE FreeFrame]
  /\ dUnlinked = {}
  /\ dDrops = <<>>

\* Page::link : a new frame is linked on a live frame, a head or the frame
\* behind a head that the new frame replaces.
DLink(next) ==
  /\ dFrames[next].state = "live"
  /\ \E a \in DropAddrs :
       /\ dFrames[a].state = "free"
       /\ \A b \in DropAddrs : dFrames[b].state = "free" => a <= b
       /\ dFrames' = [dFrames EXCEPT ![a] = LiveFrame(next)]
  /\ UNCHANGED <<dUnlinked, dDrops>>
  /\ UNCHANGED dOthers

\* Page::unlink on a head
DUnlink(a) ==
  /\ a \in Heads(dFrames)
  /\ \A u \in dUnlinked : u.addr # a
  /\ dFrames' = Page_unlink(dFrames, a)
  /\ dUnlinked' = dUnlinked \cup {[addr |-> a, next |-> dFrames[a].next]}
  /\ UNCHANGED dDrops
  /\ UNCHANGED dOthers

\* The drop of the PageBuf of a head. Chains have one owner: a head whose
\* chain is also the chain of another head is unlinked before it is dropped.
DDrop(a) ==
  /\ a \in Heads(dFrames)
  /\ \A b \in Heads(dFrames) \ {a} :
       SeqRange(Behind(dFrames, a)) \cap SeqRange(Behind(dFrames, b)) = {}
  /\ LET done == PageBuf_drop(dFrames, a, <<>>)
     IN /\ dFrames' = done.frames
        /\ dDrops' = Append(dDrops, [addr |-> a, before |-> dFrames,
                                     released |-> done.released])
  /\ UNCHANGED dUnlinked
  /\ UNCHANGED dOthers

dNext ==
  \/ \E next \in DropAddrs : DLink(next)
  \/ \E a \in DropAddrs : DUnlink(a)
  \/ \E a \in DropAddrs : DDrop(a)

\* ------------------------------------------------------------------------
\* Properties of SpecDrop
\* ------------------------------------------------------------------------

\* A frame as a release records it, with the next it held at that moment.
Release(a, next) == [addr |-> a, next |-> next, was |-> "live"]

\* The drop was of a frame that unlink had been called on.
WasUnlinked(drop) == \E u \in dUnlinked : u.addr = drop.addr

dIdle == dFrames = <<>> /\ dUnlinked = {} /\ dDrops = <<>>

qIdle == qEntries = <<>> /\ qContent = <<>> /\ qCall = <<>> /\ qIter = <<>> /\ qTrace = <<>>

pIdle == pKind = "" /\ pPage = <<>> /\ pDelta = <<>> /\ pLast = <<>>

xIdle == xPending = <<>> /\ xLog = <<>>

fIdle ==
  /\ fDisk = EmptyMap
  /\ fBuilder = NoBuilder
  /\ fPending = NoPending
  /\ fVersion = EmptyMap
  /\ fWritten = EmptyMap
  /\ fRead = NoFileRead
  /\ fRecovered = NoRecovery

bIdle == bChain = <<>> /\ bSplit = NoSplit /\ bPrev = <<>> /\ bLast = "idle"

sIdle == sEntries = <<>> /\ sContent = <<>> /\ sBuilt = FALSE /\ sRead = NoRead

tIdle ==
  /\ tHeap = <<>>
  /\ tTable = <<>>
  /\ tLsn = 0
  /\ tLog = <<>>
  /\ tW = <<>>
  /\ tR = IdleGet
  /\ tSmo = IdleSmo
  /\ tStats = Stats_default

eIdle == eEpoch = 0 /\ eSlot = 0 /\ eFrames = <<>> /\ eG = <<>>

BaseInit ==
  /\ bInit
  /\ sIdle
  /\ fIdle
  /\ tIdle
  /\ eIdle
  /\ xIdle
  /\ pIdle
  /\ qIdle
  /\ dIdle

CodecInit ==
  /\ sInit
  /\ bIdle
  /\ fIdle
  /\ tIdle
  /\ eIdle
  /\ xIdle
  /\ pIdle
  /\ qIdle
  /\ dIdle

FileInit ==
  /\ fInit
  /\ bIdle
  /\ sIdle
  /\ tIdle
  /\ eIdle
  /\ xIdle
  /\ pIdle
  /\ qIdle
  /\ dIdle

TreeInit ==
  /\ tInit
  /\ bIdle
  /\ sIdle
  /\ fIdle
  /\ eIdle
  /\ xIdle
  /\ pIdle
  /\ qIdle
  /\ dIdle

EpochInit ==
  /\ eInit
  /\ bIdle
  /\ sIdle
  /\ fIdle
  /\ tIdle
  /\ xIdle
  /\ pIdle
  /\ qIdle
  /\ dIdle

FacadeInit ==
  /\ xInit
  /\ bIdle
  /\ sIdle
  /\ fIdle
  /\ tIdle
  /\ eIdle
  /\ pIdle
  /\ qIdle
  /\ dIdle

PageInit ==
  /\ pInit
  /\ bIdle
  /\ sIdle
  /\ fIdle
  /\ tIdle
  /\ eIdle
  /\ xIdle
  /\ qIdle
  /\ dIdle

QueryInit ==
  /\ qInit
  /\ bIdle
  /\ sIdle
  /\ fIdle
  /\ tIdle
  /\ eIdle
  /\ xIdle
  /\ pIdle
  /\ dIdle

DropInit ==
  /\ dInit
  /\ bIdle
  /\ sIdle
  /\ fIdle
  /\ tIdle
  /\ eIdle
  /\ xIdle
  /\ pIdle
  /\ qIdle

SpecBase == BaseInit /\ [][bNext]_vars

SpecCodec == CodecInit /\ [][sNext]_vars

SpecFile == FileInit /\ [][fNext]_vars

Spec == TreeInit /\ [][tNext]_vars

SpecEpoch == EpochInit /\ [][eNext]_vars

SpecFacade == FacadeInit /\ [][xNext]_vars

SpecPage == PageInit /\ [][pNext]_vars

SpecQuery == QueryInit /\ [][qNext]_vars

SpecDrop == DropInit /\ [][dNext]_vars

====
